---- MODULE Spec2Model ----
(***************************************************************************)
(* A model of pop65, a two-pass assembler for the MOS 6502.                *)
(*                                                                         *)
(* A source line is modelled by its syntax: an optional label and an       *)
(* optional action (an opcode with the operand shape the parser            *)
(* recognises, a pseudo-op with its argument expressions, or text that     *)
(* parse_line rejects).  The assembler state is the state of               *)
(* asm.rs:Assembler; the actions are the steps of lib.rs:assemble.         *)
(***************************************************************************)
EXTENDS Integers, Sequences, FiniteSets, TLC

(***************************************************************************)
(* Machine arithmetic.                                                     *)
(***************************************************************************)
\* the number of values of a u16 (Assembler.pc, Symbol.value, ExLab::Num)
U16 == 65536

\* the number of values of a u8 (one emitted byte)
U8 == 256

\* the initial value of the program counter
DEFAULT_PC == 0

\* Option<u16>::None
None == -1

WrapAdd(a, b) == (a + b) % U16

WrapSub(a, b) == (a + U16 - b) % U16

\* a * b modulo 2^16, computed without leaving 32-bit integers
WrapMul(a, b) == (((a % U8) * b) + ((((a \div U8) * b) % U8) * U8)) % U16

\* the one's complement of a, which is not u16::wrapping_neg
WrapNegOnes(a) == (U16 - 1 - a) % U16

\* u16::wrapping_neg
WrapNeg(a) == (U16 - a) % U16

\* u16::to_le_bytes
ToLeBytes(v) == << v % U8, v \div U8 >>

(***************************************************************************)
(* Addressing modes and the opcode table.                                  *)
(***************************************************************************)
AMode == {"Imm", "Imp", "Zp", "ZpX", "ZpY", "Abs", "AbsX", "AbsY", "Ind", "IndX", "IndY", "Rel"}

byte_size ==
  [Imm |-> 2, Imp |-> 1, Zp |-> 2, ZpX |-> 2, ZpY |-> 2, Abs |-> 3,
   AbsX |-> 3, AbsY |-> 3, Ind |-> 3, IndX |-> 2, IndY |-> 2, Rel |-> 2]

OP_TABLE ==
  [
     adc |-> [Imm |-> 105, Zp |-> 101, ZpX |-> 117, Abs |-> 109, AbsX |-> 125, AbsY |-> 121, IndX |-> 97, IndY |-> 113],
     and |-> [Imm |-> 41, Zp |-> 37, ZpX |-> 53, Abs |-> 45, AbsX |-> 61, AbsY |-> 57, IndX |-> 33, IndY |-> 49],
     asl |-> [Imp |-> 10, Zp |-> 6, ZpX |-> 22, Abs |-> 14, AbsX |-> 30],
     bit |-> [Zp |-> 36, Abs |-> 44],
     bpl |-> [Rel |-> 16],
     bmi |-> [Rel |-> 48],
     bvc |-> [Rel |-> 80],
     bvs |-> [Rel |-> 112],
     bcc |-> [Rel |-> 144],
     bcs |-> [Rel |-> 176],
     bne |-> [Rel |-> 208],
     beq |-> [Rel |-> 240],
     brk |-> [Imp |-> 0],
     cmp |-> [Imm |-> 201, Zp |-> 197, ZpX |-> 213, Abs |-> 205, AbsX |-> 221, AbsY |-> 217, IndX |-> 193, IndY |-> 209],
     cpx |-> [Imm |-> 224, Zp |-> 228, Abs |-> 236],
     cpy |-> [Imm |-> 192, Zp |-> 196, Abs |-> 204],
     dec |-> [Zp |-> 198, ZpX |-> 214, Abs |-> 206, AbsX |-> 222],
     eor |-> [Imm |-> 73, Zp |-> 69, ZpX |-> 85, Abs |-> 77, AbsX |-> 93, AbsY |-> 89, IndX |-> 65, IndY |-> 81],
     clc |-> [Imp |-> 24],
     sec |-> [Imp |-> 56],
     cli |-> [Imp |-> 88],
     sei |-> [Imp |-> 120],
     clv |-> [Imp |-> 184],
     cld |-> [Imp |-> 216],
     sed |-> [Imp |-> 248],
     inc |-> [Zp |-> 230, ZpX |-> 246, Abs |-> 238, AbsX |-> 254],
     jmp |-> [Abs |-> 76, Ind |-> 108],
     jsr |-> [Abs |-> 32],
     lda |-> [Imm |-> 169, Zp |-> 165, ZpX |-> 181, Abs |-> 173, AbsX |-> 189, AbsY |-> 185, IndX |-> 161, IndY |-> 177],
     ldx |-> [Imm |-> 162, Zp |-> 166, ZpY |-> 182, Abs |-> 174, AbsY |-> 190],
     ldy |-> [Imm |-> 160, Zp |-> 164, ZpX |-> 180, Abs |-> 172, AbsX |-> 188],
     lsr |-> [Imp |-> 74, Zp |-> 70, ZpX |-> 86, Abs |-> 78, AbsX |-> 94],
     nop |-> [Imp |-> 234],
     ora |-> [Imm |-> 9, Zp |-> 5, ZpX |-> 21, Abs |-> 13, AbsX |-> 29, AbsY |-> 25, IndX |-> 1, IndY |-> 17],
     tax |-> [Imp |-> 170],
     txa |-> [Imp |-> 138],
     dex |-> [Imp |-> 202],
     inx |-> [Imp |-> 232],
     tay |-> [Imp |-> 168],
     tya |-> [Imp |-> 152],
     dey |-> [Imp |-> 136],
     iny |-> [Imp |-> 200],
     rol |-> [Imp |-> 42, Zp |-> 38, ZpX |-> 54, Abs |-> 46, AbsX |-> 62],
     ror |-> [Imp |-> 106, Zp |-> 102, ZpX |-> 118, Abs |-> 110, AbsX |-> 126],
     rti |-> [Imp |-> 64],
     rts |-> [Imp |-> 96],
     sbc |-> [Imm |-> 233, Zp |-> 229, ZpX |-> 245, Abs |-> 237, AbsX |-> 253, AbsY |-> 249, IndX |-> 225, IndY |-> 241],
     sta |-> [Zp |-> 133, ZpX |-> 149, Abs |-> 141, AbsX |-> 157, AbsY |-> 153, IndX |-> 129, IndY |-> 145],
     txs |-> [Imp |-> 154],
     tsx |-> [Imp |-> 186],
     pha |-> [Imp |-> 72],
     pla |-> [Imp |-> 104],
     php |-> [Imp |-> 8],
     plp |-> [Imp |-> 40],
     stx |-> [Zp |-> 134, ZpY |-> 150, Abs |-> 142],
     sty |-> [Zp |-> 132, ZpX |-> 148, Abs |-> 140]
  ]

\* op.op_bytes.contains_key(&amode)
HasMode(mn, amode) == amode \in DOMAIN OP_TABLE[mn]

(***************************************************************************)
(* Slices and the symbol table.                                            *)
(*                                                                         *)
(* A slice is identified by the number of its line and the part of the     *)
(* line it covers: the label, or a name inside the action's expressions.   *)
(***************************************************************************)
Names == {"foo", "bar", "inw"}

\* Option<String>: None, or Some of a sequence of character codes
NoneStr == [some |-> FALSE, s |-> << >>]

SomeStr(s) == [some |-> TRUE, s |-> s]

NoSlice == [line |-> 0, part |-> "none"]

LabelSlice(n) == [line |-> n, part |-> "label"]

RefSlice(n) == [line |-> n, part |-> "ref"]

\* a name the symbol table has no entry for
NoSym ==
  [present |-> FALSE, value |-> None, defined_at |-> NoSlice, references |-> {},
   comment |-> NoneStr]

EmptySymtab == [n \in Names |-> NoSym]

\* Symbol::new
SymbolNew(first_ref) ==
  [present |-> TRUE, value |-> None, defined_at |-> NoSlice, references |-> {first_ref},
   comment |-> NoneStr]

\* Symbol::add_ref
AddRef(sym, ref_slice) == [sym EXCEPT !.references = @ \cup {ref_slice}]

\* Assembler::lookup: the table after the call
Lookup(st, name, ref_slice) ==
  LET st1 == IF ~st[name].present THEN [st EXCEPT ![name] = SymbolNew(ref_slice)] ELSE st
  IN  [st1 EXCEPT ![name] = AddRef(@, ref_slice)]

\* Symbol::define, were it to record the value without the defining site
SymDefineValueOnly(sym, value, defined_at) ==
  IF sym.value = None
    THEN [ok |-> TRUE, sym |-> AddRef([sym EXCEPT !.value = value], defined_at)]
    ELSE [ok |-> FALSE, sym |-> sym]

\* Symbol::define: the result and the symbol after the call
SymDefine(sym, value, defined_at) ==
  IF sym.value = None
    THEN [ok |-> TRUE,
          sym |-> AddRef([sym EXCEPT !.value = value, !.defined_at = defined_at], defined_at)]
    ELSE [ok |-> FALSE, sym |-> sym]

\* Assembler::def_symbol, were pass 1 to accept a redefinition with the value
\* the symbol already has, as the pass-2 arm does
DefSymbolSameValueOk(ps, st, name, slice, value) ==
  LET st1 == Lookup(st, name, slice) IN
  IF ps = "Pass1"
    THEN LET r == SymDefine(st1[name], value, slice)
         IN  [ok |-> r.ok \/ st1[name].value = value, panic |-> FALSE,
              symtab |-> [st1 EXCEPT ![name] = r.sym]]
    ELSE IF ps = "Pass2"
      THEN [ok |-> st1[name].value # None /\ st1[name].value = value,
            panic |-> FALSE, symtab |-> st1]
      ELSE [ok |-> FALSE, panic |-> TRUE, symtab |-> st]

\* Assembler::def_symbol: the result and the table after the call
DefSymbol(ps, st, name, slice, value) ==
  LET st1 == Lookup(st, name, slice) IN
  IF ps = "Pass1"
    THEN LET r == SymDefine(st1[name], value, slice)
         IN  [ok |-> r.ok, panic |-> FALSE, symtab |-> [st1 EXCEPT ![name] = r.sym]]
    ELSE IF ps = "Pass2"
      THEN [ok |-> st1[name].value # None /\ st1[name].value = value,
            panic |-> FALSE, symtab |-> st1]
      ELSE [ok |-> FALSE, panic |-> TRUE, symtab |-> st]

\* Assembler::def_label: a label is defined at the current PC
DefLabel(ps, st, pcv, label, slice) == DefSymbol(ps, st, label, slice, pcv)

(***************************************************************************)
(* Expressions.                                                            *)
(***************************************************************************)
Num(v) == [k |-> "Num", v |-> v]

Name(n) == [k |-> "Name", n |-> n]

\* '*' in the source text: the parser turns it into Num(pc)
Star == [k |-> "Star"]

\* a string literal, as the sequence of its bytes
Str(s) == [k |-> "Str", s |-> s]

\* Neg, Hi, Lo, Expr
Un(k, e) == [k |-> k, e |-> e]

\* Add, Sub, Mul, Div, Mod
Bin(k, l, r) == [k |-> k, l |-> l, r |-> r]

RelOp(op, l, r) == [k |-> "RelOp", op |-> op, l |-> l, r |-> r]

UnaryKinds == {"Neg", "Hi", "Lo", "Expr"}

BinaryKinds == {"Add", "Sub", "Mul", "Div", "Mod"}

\* the names an expression refers to; parse_primary looks each of them up
RECURSIVE ExprNames(_)
ExprNames(e) ==
  IF e.k = "Name" THEN {e.n}
  ELSE IF e.k \in UnaryKinds THEN ExprNames(e.e)
  ELSE IF e.k \in BinaryKinds \cup {"RelOp"} THEN ExprNames(e.l) \cup ExprNames(e.r)
  ELSE {}

\* parse_expr: the tree built from the text, with '*' read as the current PC
RECURSIVE ParseExpr(_, _)
ParseExpr(e, pcv) ==
  IF e.k = "Star" THEN Num(pcv)
  ELSE IF e.k \in UnaryKinds THEN Un(e.k, ParseExpr(e.e, pcv))
  ELSE IF e.k \in BinaryKinds THEN Bin(e.k, ParseExpr(e.l, pcv), ParseExpr(e.r, pcv))
  ELSE IF e.k = "RelOp" THEN RelOp(e.op, ParseExpr(e.l, pcv), ParseExpr(e.r, pcv))
  ELSE e

EvOk(v) == [ok |-> TRUE, val |-> v, panic |-> FALSE]

EvErr == [ok |-> FALSE, val |-> 0, panic |-> FALSE]

\* an arithmetic panic: the process aborts
EvPanic == [ok |-> FALSE, val |-> 0, panic |-> TRUE]

RelResult(op, l, r) ==
  CASE op = "Less" -> l < r
    [] op = "Great" -> l > r
    [] op = "Equ" -> l = r
    [] op = "Nequ" -> l # r
    [] op = "LessEqu" -> l <= r
    [] op = "GreatEqu" -> l >= r

BinResult(k, l, r) ==
  CASE k = "Add" -> EvOk(WrapAdd(l, r))
    [] k = "Sub" -> EvOk(WrapSub(l, r))
    [] k = "Mul" -> EvOk(WrapMul(l, r))
    [] k = "Div" -> IF r = 0 THEN EvPanic ELSE EvOk(l \div r)
    [] k = "Mod" -> IF r = 0 THEN EvPanic ELSE EvOk(l % r)

\* the value of Neg, Hi, Lo or Expr applied to the result x of its operand
UnResult(k, x) ==
  IF ~x.ok THEN x
  ELSE IF k = "Neg" THEN EvOk(WrapNeg(x.val))
  ELSE IF k = "Hi" THEN EvOk(x.val \div U8)
  ELSE IF k = "Lo" THEN EvOk(x.val % U8)
  ELSE x

\* the value of a binary node from the results of its operands: the left
\* operand's failure is returned before the right operand is looked at
BinaryResult(e, l, r) ==
  IF ~l.ok THEN l
  ELSE IF ~r.ok THEN r
  ELSE IF e.k = "RelOp" THEN EvOk(IF RelResult(e.op, l.val, r.val) THEN 1 ELSE 0)
  ELSE BinResult(e.k, l.val, r.val)

\* the value of a Name node, were an undefined symbol to read as 0
NameResultOrZero(sym) == IF sym.present /\ sym.value # None THEN EvOk(sym.value) ELSE EvOk(0)

\* the value of a Name node
NameResult(sym) == IF sym.present /\ sym.value # None THEN EvOk(sym.value) ELSE EvErr

\* ExprNode::eval.  The lookup it makes for a Name re-inserts the slice that
\* parse_primary already recorded for that node, so it leaves the table as it is.
RECURSIVE Eval(_, _)
Eval(e, st) ==
  IF e.k = "Name" THEN NameResult(st[e.n])
  ELSE IF e.k = "Num" THEN EvOk(e.v)
  ELSE IF e.k = "Str" THEN (IF Len(e.s) = 1 THEN EvOk(e.s[1]) ELSE EvErr)
  ELSE IF e.k \in UnaryKinds THEN UnResult(e.k, Eval(e.e, st))
  ELSE BinaryResult(e, Eval(e.l, st), Eval(e.r, st))

(***************************************************************************)
(* Actions.  The functions below take the fields of the assembler an       *)
(* action can read or change as a record `a`                               *)
(* [pass, pc, symtab, if_stack, output_flag] and return it as changed.     *)
(***************************************************************************)
NoExpr == [k |-> "NoExpr"]

NoAct == [kind |-> "none"]

\* an opcode with the operand shape parse_operand recognised
OpCode(mn, amode, expr) == [kind |-> "op", mn |-> mn, amode |-> amode, expr |-> expr]

PseudoOp(name, args) == [kind |-> "pseudo", name |-> name, args |-> args]

\* text that parse_line rejects
BadText == [kind |-> "bad"]

\* i8::MIN and i8::MAX, the range of i8::try_from
I8_MIN == -128

I8_MAX == 127

\* u8::MAX
U8_MAX == 255

\* the test is_zp makes on the result of evaluating the operand
FitsZp(ev) == ev.ok /\ ev.val <= U8_MAX

\* OpCode::is_zp
IsZp(act, st) == act.expr.k # "NoExpr" /\ FitsZp(Eval(act.expr, st))

\* real_amode, were it to shrink to zero page without consulting the table of
\* the mnemonic
RealAmodeForAnyZp(act, zp) ==
  CASE act.amode = "Abs" ->
         IF HasMode(act.mn, "Rel") THEN "Rel"
         ELSE IF zp THEN "Zp"
         ELSE "Abs"
    [] act.amode = "AbsX" -> IF zp THEN "ZpX" ELSE "AbsX"
    [] act.amode = "AbsY" -> IF zp THEN "ZpY" ELSE "AbsY"
    [] OTHER -> act.amode

\* the mode real_amode returns, given what is_zp answers when it is asked
RealAmodeFor(act, zp) ==
  CASE act.amode = "Abs" ->
         IF HasMode(act.mn, "Rel") THEN "Rel"
         ELSE IF HasMode(act.mn, "Zp") /\ zp THEN "Zp"
         ELSE "Abs"
    [] act.amode = "AbsX" -> IF HasMode(act.mn, "ZpX") /\ zp THEN "ZpX" ELSE "AbsX"
    [] act.amode = "AbsY" -> IF HasMode(act.mn, "ZpY") /\ zp THEN "ZpY" ELSE "AbsY"
    [] OTHER -> act.amode

\* OpCode::real_amode
RealAmode(act, st) == RealAmodeFor(act, IsZp(act, st))

\* real_amode asks is_zp
AsksZp(act) ==
  \/ act.amode = "Abs" /\ ~HasMode(act.mn, "Rel") /\ HasMode(act.mn, "Zp")
  \/ act.amode = "AbsX" /\ HasMode(act.mn, "ZpX")
  \/ act.amode = "AbsY" /\ HasMode(act.mn, "ZpY")

\* real_amode asks is_zp, whose evaluation of the operand aborts the process
RealAmodePanics(act, st) ==
  AsksZp(act) /\ act.expr.k # "NoExpr" /\ Eval(act.expr, st).panic

BytesOk(bs) == [ok |-> TRUE, panic |-> FALSE, bytes |-> bs]

BytesErr == [ok |-> FALSE, panic |-> FALSE, bytes |-> << >>]

BytesPanic == [ok |-> FALSE, panic |-> TRUE, bytes |-> << >>]

\* i8::try_from(offset), as the byte of the offset
OffsetByte(offset) ==
  IF I8_MIN <= offset /\ offset <= I8_MAX THEN BytesOk(<< (offset + U8) % U8 >>)
  ELSE BytesErr

\* the operand bytes of a relative branch, were the offset taken from the PC
\* of the instruction itself
RelBytesFromPc(val, pcv) == OffsetByte(val - pcv)

\* the operand bytes of a relative branch: the offset of the target from the
\* PC after the instruction
RelBytes(val, pcv) == OffsetByte(val - (pcv + 2))

\* the operand bytes of a mode that is not relative, were the high byte
\* dropped without being tested
OperandBytesUnchecked(val, amode) ==
  IF byte_size[amode] - 1 = 1 THEN BytesOk(<< ToLeBytes(val)[1] >>)
    ELSE IF byte_size[amode] - 1 = 2 THEN BytesOk(ToLeBytes(val))
    ELSE BytesPanic

\* the operand bytes of a mode that is not relative: one byte when the high
\* byte popped from the pair is zero, or both bytes
OperandBytes(val, amode) ==
  IF byte_size[amode] - 1 = 1
    THEN IF ToLeBytes(val)[2] # 0 THEN BytesErr ELSE BytesOk(<< ToLeBytes(val)[1] >>)
    ELSE IF byte_size[amode] - 1 = 2 THEN BytesOk(ToLeBytes(val))
    ELSE BytesPanic

\* the bytes OpCode::eval returns for the result ev of evaluating the operand
OpEvalOf(ev, amode, pcv) ==
  IF ev.panic THEN BytesPanic
  ELSE IF ~ev.ok THEN BytesErr
  ELSE IF amode = "Rel" THEN RelBytes(ev.val, pcv)
  ELSE OperandBytes(ev.val, amode)

\* OpCode::eval.  asm.pc() is read as the pc field.
OpEval(act, amode, st, pcv) ==
  IF act.expr.k = "NoExpr" THEN BytesOk(<< >>)
  ELSE OpEvalOf(Eval(act.expr, st), amode, pcv)

Result1(ok, size, a) == [ok |-> ok, panic |-> FALSE, size |-> size, asm |-> a]

Panic1(a) == [ok |-> FALSE, panic |-> TRUE, size |-> 0, asm |-> a]

Result2(ok, bs, a) == [ok |-> ok, panic |-> FALSE, bytes |-> bs, asm |-> a]

Panic2(a) == [ok |-> FALSE, panic |-> TRUE, bytes |-> << >>, asm |-> a]

\* the result of OpCode::pass1 for the resolved mode
OpPass1For(act, a, amode) ==
  IF ~HasMode(act.mn, amode) THEN Result1(FALSE, 0, a)
  ELSE Result1(TRUE, byte_size[amode], a)

\* <OpCode as Action>::pass1
OpPass1(act, a) ==
  IF RealAmodePanics(act, a.symtab) THEN Panic1(a)
  ELSE OpPass1For(act, a, RealAmode(act, a.symtab))

\* the result of OpCode::pass2 for the resolved mode and the operand bytes
OpPass2For(act, a, amode, ev) ==
  IF ev.panic THEN Panic2(a)
  ELSE IF ~ev.ok THEN Result2(FALSE, << >>, a)
  ELSE IF ~HasMode(act.mn, amode) THEN Panic2(a)
  ELSE Result2(TRUE, << OP_TABLE[act.mn][amode] >> \o ev.bytes, a)

\* OpCode::pass2 once the mode is resolved
OpPass2In(act, a, amode) ==
  OpPass2For(act, a, amode, OpEval(act, amode, a.symtab, a.pc))

\* <OpCode as Action>::pass2
OpPass2(act, a) ==
  IF RealAmodePanics(act, a.symtab) THEN Panic2(a)
  ELSE OpPass2In(act, a, RealAmode(act, a.symtab))

\* PseudoOp::is_str_arg: TRUE when the argument is a string node, possibly
\* in parentheses
RECURSIVE IsStrArg(_)
IsStrArg(arg) ==
  IF arg.k = "Expr" THEN IsStrArg(arg.e) ELSE arg.k = "Str"

\* the string of an argument for which IsStrArg holds
RECURSIVE StrArg(_)
StrArg(arg) == IF arg.k = "Expr" THEN StrArg(arg.e) ELSE arg.s

\* the size .byte computes in pass 1
RECURSIVE ByteSize(_)
ByteSize(args) ==
  IF args = << >> THEN 0
  ELSE (IF IsStrArg(Head(args)) THEN Len(StrArg(Head(args))) ELSE 1) + ByteSize(Tail(args))

\* bytes followed by the bytes of the remaining arguments, unless those failed
Then(bs, rest) == IF rest.ok THEN BytesOk(bs \o rest.bytes) ELSE rest

\* the bytes picked from an evaluated argument, followed by those of the
\* remaining arguments; a failed evaluation ends the loop
EvalThen(ev, width, rest) ==
  IF ev.panic THEN BytesPanic
  ELSE IF ~ev.ok THEN BytesErr
  ELSE Then(SubSeq(ToLeBytes(ev.val), 1, width), rest)

\* the bytes .byte emits in pass 2
RECURSIVE ByteBytes(_, _)
ByteBytes(args, st) ==
  IF args = << >> THEN BytesOk(<< >>)
  ELSE IF IsStrArg(Head(args))
    THEN Then(StrArg(Head(args)), ByteBytes(Tail(args), st))
    ELSE EvalThen(Eval(Head(args), st), 1, ByteBytes(Tail(args), st))

\* the bytes .word emits in pass 2
RECURSIVE WordBytes(_, _)
WordBytes(args, st) ==
  IF args = << >> THEN BytesOk(<< >>)
  ELSE EvalThen(Eval(Head(args), st), 2, WordBytes(Tail(args), st))

\* vec![b; n]
Fill(b, n) == [i \in 1..n |-> b]

Top(stack) == stack[Len(stack)]

Pop(stack) == SubSeq(stack, 1, Len(stack) - 1)

\* a pass-1 result for a failed evaluation
EvalFail1(ev, a) == IF ev.panic THEN Panic1(a) ELSE Result1(FALSE, 0, a)

\* .if with the result of its condition
IfWith(ev, a) ==
  IF ~ev.ok THEN EvalFail1(ev, a)
  ELSE Result1(TRUE, 0, [a EXCEPT !.if_stack = Append(@, ev.val # 0)])

\* .ds with the result of its count
DsWith(ev, a) == IF ~ev.ok THEN EvalFail1(ev, a) ELSE Result1(TRUE, ev.val, a)

\* .org with the result of its address
OrgWith(ev, a) ==
  IF ~ev.ok THEN EvalFail1(ev, a) ELSE Result1(TRUE, 0, [a EXCEPT !.pc = ev.val])

\* = with the result of def_symbol
EquDefined(d, a) ==
  IF d.panic THEN Panic1(a) ELSE Result1(d.ok, 0, [a EXCEPT !.symtab = d.symtab])

\* = with the result of its value
EquWith(ev, a, label, n) ==
  IF ~ev.ok THEN EvalFail1(ev, a)
  ELSE EquDefined(DefSymbol(a.pass, a.symtab, label, LabelSlice(n), ev.val), a)

\* .mac and .endm as actions: the driver handles the definition, and the
\* directives themselves have no size and no effect
MacroDirective(a) == Result1(TRUE, 0, a)

\* <PseudoOp as Action>::pass1.  label is the name of the line's label, ""
\* when it has none; n is the number of the line.
PseudoPass1(act, a, label, n) ==
  CASE act.name = ".if" ->
         IF Len(act.args) = 1 THEN IfWith(Eval(act.args[1], a.symtab), a)
         ELSE Result1(FALSE, 0, a)
    [] act.name = ".endif" ->
         IF a.if_stack = << >> THEN Result1(FALSE, 0, a)
         ELSE Result1(Len(act.args) = 0, 0, [a EXCEPT !.if_stack = Pop(@)])
    [] act.name = ".else" ->
         IF a.if_stack # << >>
           THEN Result1(Len(act.args) = 0, 0,
                        [a EXCEPT !.if_stack = Append(Pop(@), ~Top(@))])
           ELSE Result1(FALSE, 0, a)
    [] act.name = ".assert" -> Result1(TRUE, 0, a)
    [] act.name = ".ds" ->
         IF Len(act.args) \in {1, 2} THEN DsWith(Eval(act.args[1], a.symtab), a)
         ELSE Result1(FALSE, 0, a)
    [] act.name \in {"=", ".equ"} ->
         IF Len(act.args) # 1 THEN Result1(FALSE, 0, a)
         ELSE IF label # "" THEN EquWith(Eval(act.args[1], a.symtab), a, label, n)
         ELSE Result1(FALSE, 0, a)
    [] act.name = ".org" ->
         IF Len(act.args) = 1 THEN OrgWith(Eval(act.args[1], a.symtab), a)
         ELSE Result1(FALSE, 0, a)
    [] act.name = ".byte" -> Result1(TRUE, ByteSize(act.args) % U16, a)
    [] act.name = ".word" -> Result1(TRUE, (Len(act.args) * 2) % U16, a)
    [] act.name \in {".off", ".on"} -> Result1(TRUE, 0, a)
    [] act.name = ".dbg" ->
         IF act.args = << >> THEN Result1(TRUE, 0, [a EXCEPT !.debug_fmt = NoneStr])
         ELSE IF Len(act.args) # 1 THEN Result1(FALSE, 0, a)
         ELSE IF IsStrArg(act.args[1])
           THEN Result1(TRUE, 0, [a EXCEPT !.debug_fmt = SomeStr(StrArg(act.args[1]))])
         ELSE Result1(FALSE, 0, a)
    [] act.name \in {".mac", ".endm"} -> MacroDirective(a)
    [] OTHER -> Result1(FALSE, 0, a)

\* a pass-1 result as the pass-2 result with no bytes: pass1(..).map(|_| vec![])
AsPass2(r) == [ok |-> r.ok, panic |-> r.panic, bytes |-> << >>, asm |-> r.asm]

\* a list of bytes as a pass-2 result
FromBytes(b, a) == [ok |-> b.ok, panic |-> b.panic, bytes |-> b.bytes, asm |-> a]

\* the bytes of .ds from the results of its fill byte and its count: the fill
\* byte is evaluated before the count
DsFill(fill, count) ==
  IF fill.panic THEN BytesPanic
  ELSE IF ~fill.ok THEN BytesErr
  ELSE IF count.panic THEN BytesPanic
  ELSE IF ~count.ok THEN BytesErr
  ELSE BytesOk(Fill(ToLeBytes(fill.val)[1], count.val))

\* the bytes .ds emits in pass 2
DsBytes(args, st) ==
  DsFill(IF Len(args) = 2 THEN Eval(args[2], st) ELSE EvOk(0), Eval(args[1], st))

\* .assert with the result of its condition
AssertWith(ev, a) ==
  IF ev.panic THEN Panic2(a) ELSE Result2(ev.ok /\ ev.val # 0, << >>, a)

\* <PseudoOp as Action>::pass2
PseudoPass2(act, a, n) ==
  CASE act.name \in {".if", ".else", ".endif"} -> Result2(TRUE, << >>, a)
    [] act.name = ".assert" ->
         IF Len(act.args) = 1 THEN AssertWith(Eval(act.args[1], a.symtab), a)
         ELSE Result2(FALSE, << >>, a)
    [] act.name = ".on" -> Result2(TRUE, << >>, [a EXCEPT !.output_flag = TRUE])
    [] act.name = ".off" -> Result2(TRUE, << >>, [a EXCEPT !.output_flag = FALSE])
    [] act.name = ".ds" ->
         IF Len(act.args) \in {1, 2} THEN FromBytes(DsBytes(act.args, a.symtab), a)
         ELSE Panic2(a)
    [] act.name \in {"=", ".equ"} -> Result2(TRUE, << >>, a)
    [] act.name = ".byte" -> FromBytes(ByteBytes(act.args, a.symtab), a)
    [] act.name = ".word" -> FromBytes(WordBytes(act.args, a.symtab), a)
    [] OTHER -> AsPass2(PseudoPass1(act, a, "", n))

\* PseudoOp::is_equ; an opcode is never one
IsEqu(act) == act.kind = "pseudo" /\ act.name \in {"=", ".equ"}

\* PseudoOp::is_if_affiliated; an opcode is never one
IsIfAffiliated(act) == act.kind = "pseudo" /\ act.name \in {".else", ".endif"}

(***************************************************************************)
(* The debug string.  Text is a sequence of character codes.  A u32 is     *)
(* kept as its two 16-bit halves.                                          *)
(***************************************************************************)
U32(hi, lo) == [hi |-> hi, lo |-> lo]

\* starting_offset * 16 + digit, when it wraps
MulAdd32(x, d) == U32((x.hi * 16 + x.lo \div 4096) % U16, (x.lo * 16 + d) % U16)

\* starting_offset * 16 does not fit a u32
MulOverflows(x) == x.hi >= 4096

\* u32::wrapping_neg
WrapNeg32(x) ==
  IF x.lo = 0 THEN U32((U16 - x.hi) % U16, 0) ELSE U32(U16 - 1 - x.hi, U16 - x.lo)

\* u32::wrapping_add of `value as u32`
WrapAdd32(x, v) == U32((x.hi + (x.lo + v) \div U16) % U16, (x.lo + v) % U16)

\* an uppercase hexadecimal digit
HexChar(d) == IF d < 10 THEN 48 + d ELSE 55 + d

\* {:X} of a number below 2^16
RECURSIVE UpperHex(_)
UpperHex(n) ==
  IF n < 16 THEN << HexChar(n) >> ELSE Append(UpperHex(n \div 16), HexChar(n % 16))

\* {:X} of a u32
UpperHex32(x) ==
  IF x.hi = 0 THEN UpperHex(x.lo)
  ELSE UpperHex(x.hi)
         \o << HexChar(x.lo \div 4096), HexChar((x.lo \div 256) % 16),
               HexChar((x.lo \div 16) % 16), HexChar(x.lo % 16) >>

\* char::to_digit(16), None for a character that is no digit
ToDigit(c) ==
  IF c \in 48..57 THEN c - 48
  ELSE IF c \in 65..70 THEN c - 55
  ELSE IF c \in 97..102 THEN c - 87
  ELSE None

\* char::is_whitespace for the characters of a line: blank, tab, newline
IsSpace(c) == c \in {32, 9, 10}

\* str::trim_end
RECURSIVE TrimEnd(_)
TrimEnd(s) ==
  IF s # << >> /\ IsSpace(s[Len(s)]) THEN TrimEnd(SubSeq(s, 1, Len(s) - 1)) ELSE s

\* str::trim_start
RECURSIVE TrimStart(_)
TrimStart(s) == IF s # << >> /\ IsSpace(Head(s)) THEN TrimStart(Tail(s)) ELSE s

\* the text {C} gives: comment.unwrap_or("").trim_end().replace("\n", " ")
CommentText(comment) == [i \in 1..Len(TrimEnd(comment.s)) |->
                           IF TrimEnd(comment.s)[i] = 10 THEN 32 ELSE TrimEnd(comment.s)[i]]

\* the characters of a name
NameText == [foo |-> << 102, 111, 111 >>, bar |-> << 98, 97, 114 >>,
             inw |-> << 105, 110, 119 >>]

\* what debug_label returns and the text it has pushed on debug_str
Dbg(ok, panic, out) == [ok |-> ok, panic |-> panic, out |-> out]

\* the context of a call of debug_label: the label, its value, its comment,
\* and whether the build checks arithmetic overflow
DbgCtx(label, value, comment, checks) ==
  [label |-> label, value |-> value, comment |-> comment, checks |-> checks]

\* debug_label from the characters f of the template on, with out pushed so
\* far
RECURSIVE DbgScan(_, _, _)
\* {V..}: the digits of the offset up to '}' or the end of the template,
\* then the value is pushed
RECURSIVE DbgDigits(_, _, _, _, _)
DbgDigits(g, off, neg, out, c) ==
  IF g = << >> \/ Head(g) = 125
    THEN DbgScan(IF g = << >> THEN g ELSE Tail(g),
                 out \o UpperHex32(WrapAdd32(IF neg THEN WrapNeg32(off) ELSE off,
                                             c.value)),
                 c)
  ELSE IF ToDigit(Head(g)) = None THEN Dbg(FALSE, FALSE, out)
  ELSE IF MulOverflows(off) /\ c.checks THEN Dbg(FALSE, TRUE, out)
  ELSE DbgDigits(Tail(g), MulAdd32(off, ToDigit(Head(g))), neg, out, c)

\* what follows a '{': g is the rest of the template after it
DbgField(g, out, c) ==
  IF g = << >> THEN Dbg(FALSE, FALSE, out)
  ELSE IF Head(g) = 67
    THEN (IF Len(g) >= 2 /\ g[2] = 125
            THEN DbgScan(SubSeq(g, 3, Len(g)), out \o CommentText(c.comment), c)
            ELSE Dbg(FALSE, FALSE, out))
  ELSE IF Head(g) = 76
    THEN (IF Len(g) >= 2 /\ g[2] = 125
            THEN DbgScan(SubSeq(g, 3, Len(g)), out \o NameText[c.label], c)
            ELSE Dbg(FALSE, FALSE, out))
  ELSE IF Head(g) = 86
    THEN (IF Len(g) >= 2 /\ g[2] = 45
            THEN DbgDigits(SubSeq(g, 3, Len(g)), U32(0, 0), TRUE, out, c)
            ELSE DbgDigits(Tail(g), U32(0, 0), FALSE, out, c))
  ELSE Dbg(FALSE, FALSE, out)

DbgScan(f, out, c) ==
  IF f = << >> THEN Dbg(TRUE, FALSE, Append(out, 10))
  ELSE IF Head(f) = 123 THEN DbgField(Tail(f), out, c)
  ELSE DbgScan(Tail(f), Append(out, Head(f)), c)

\* Assembler::debug_label
DebugLabel(fmt, c) == DbgScan(fmt, << >>, c)

(***************************************************************************)
(* The dump of the symbol table.                                           *)
(***************************************************************************)
\* u16::cmp
CmpInt(a, b) == IF a < b THEN "Less" ELSE IF a > b THEN "Greater" ELSE "Equal"

\* str::cmp: byte by byte, a proper prefix first
RECURSIVE CmpStr(_, _)
CmpStr(a, b) ==
  IF a = << >> THEN (IF b = << >> THEN "Equal" ELSE "Less")
  ELSE IF b = << >> THEN "Greater"
  ELSE IF Head(a) # Head(b) THEN CmpInt(Head(a), Head(b))
  ELSE CmpStr(Tail(a), Tail(b))

\* the fields of a Symbol that its comparison and its Display read
Sym(name, value) == [name |-> name, value |-> value]

\* Ord::cmp of Symbol
Cmp(a, b) ==
  IF a.value # None /\ b.value # None THEN CmpInt(a.value, b.value)
  ELSE CmpStr(NameText[a.name], NameText[b.name])

\* one step of the insertion sort that slice::sort runs on a short slice:
\* x goes left past every element it is less than
RECURSIVE InsertTail(_, _)
InsertTail(v, x) ==
  IF v = << >> \/ Cmp(x, v[Len(v)]) # "Less" THEN Append(v, x)
  ELSE Append(InsertTail(SubSeq(v, 1, Len(v) - 1), x), v[Len(v)])

\* slice::sort, which is stable
RECURSIVE Sort(_)
Sort(v) ==
  IF v = << >> THEN << >> ELSE InsertTail(Sort(SubSeq(v, 1, Len(v) - 1)), v[Len(v)])

\* {:04X} of a u16
Hex04(v) ==
  << HexChar(v \div 4096), HexChar((v \div 256) % 16), HexChar((v \div 16) % 16),
     HexChar(v % 16) >>

\* Display of Symbol: "VVVV: name", or the name after six blanks
Display(sym) ==
  (IF sym.value # None THEN Hex04(sym.value) \o << 58, 32 >>
                       ELSE << 32, 32, 32, 32, 32, 32 >>)
    \o NameText[sym.name]

\* the loop of dump_symtab: each symbol and a newline
RECURSIVE DumpLines(_)
DumpLines(symbols) ==
  IF symbols = << >> THEN << >>
  ELSE Display(Head(symbols)) \o << 10 >> \o DumpLines(Tail(symbols))

\* the names of the entries of the table
Present(st) == {n \in Names : st[n].present}

\* the orders in which HashMap::values can give the entries: any of them
IterOrders(st) ==
  {o \in [1..Cardinality(Present(st)) -> Present(st)] :
     \A i, j \in DOMAIN o : o[i] = o[j] => i = j}

\* Vec::from_iter(self.symtab.values()), for one order of the iteration
Values(st, order) == [i \in DOMAIN order |-> Sym(order[i], st[order[i]].value)]

\* AsmInfo::dump_symtab, for one order of the iteration
DumpSymtabOf(st, order) == DumpLines(Sort(Values(st, order)))

(***************************************************************************)
(* Sources and parsing.                                                    *)
(***************************************************************************)
\* the text of a line: its label ("" when it has none), its action and what
\* follows its `;` (NoneStr when it has no `;`)
TextC(label, act, comment) == [label |-> label, act |-> act, comment |-> comment]

\* the text of a line without a comment
Text(label, act) == TextC(label, act, NoneStr)

\* a macro parameter `\i` in the text of an operand
Arg(i) == [k |-> "Arg", i |-> i]

\* the text of an expression with `\i` replaced by the i-th argument: one
\* str::replace of replace_args.  Arguments are single tokens.
RECURSIVE ReplaceExpr(_, _, _)
ReplaceExpr(e, i, arg) ==
  IF e.k = "Arg" THEN (IF e.i = i THEN arg ELSE e)
  ELSE IF e.k \in UnaryKinds THEN [e EXCEPT !.e = ReplaceExpr(@, i, arg)]
  ELSE IF e.k \in BinaryKinds \cup {"RelOp"}
    THEN [e EXCEPT !.l = ReplaceExpr(@, i, arg), !.r = ReplaceExpr(@, i, arg)]
  ELSE e

\* the text of an action with `\i` replaced by the i-th argument
ReplaceAct(act, i, arg) ==
  IF act.kind = "op" THEN
    (IF act.expr.k = "NoExpr" THEN act ELSE [act EXCEPT !.expr = ReplaceExpr(@, i, arg)])
  ELSE IF act.kind = "pseudo" THEN
    [act EXCEPT !.args = [j \in 1..Len(act.args) |-> ReplaceExpr(act.args[j], i, arg)]]
  ELSE act

\* MacUsage::replace_args: `\1`, `\2`, ... are replaced one after the other
RECURSIVE ReplaceArgs(_, _, _)
ReplaceArgs(text, args, i) ==
  IF i > Len(args) THEN text
  ELSE ReplaceArgs([text EXCEPT !.act = ReplaceAct(@, i, args[i])], args, i + 1)

\* StrSrc::new: the lines of a file, numbered from 1
StrSrcNew(texts, path) ==
  [kind |-> "str", lines |-> texts, path |-> path, line_num |-> 1, args |-> << >>]

\* source::from_str: the lines of a string
StrSrc(texts) == StrSrcNew(texts, "src")

\* MacSource::new: the lines of a macro for the usage at (path, line_num); its
\* lines are the ones not yet returned
MacSource(body, args, path, line_num) ==
  [kind |-> "mac", lines |-> body, path |-> path, line_num |-> line_num,
   args |-> args]

\* the line the source returns next: <StrSrc as Iterator>::next and
\* <MacSource as Iterator>::next
SrcHead(src) ==
  [text |-> IF src.kind = "mac" THEN ReplaceArgs(Head(src.lines), src.args, 1)
                                ELSE Head(src.lines),
   path |-> src.path, line_num |-> src.line_num]

\* the source after it has returned a line: the lines of a macro all carry the
\* line number of the usage
SrcAdvance(src) ==
  [src EXCEPT !.lines = Tail(@),
              !.line_num = IF src.kind = "mac" THEN @ ELSE @ + 1]

\* SrcStack::new
SrcStackNew(src) == << src >>

\* SrcStack::push, were the new source to go under the others
SrcPushUnder(stk, src) == << src >> \o stk

\* SrcStack::push
SrcPush(stk, src) == Append(stk, src)

\* a Line
Line(head, stk) ==
  [some |-> TRUE, text |-> head.text, path |-> head.path,
   line_num |-> head.line_num, stk |-> stk]

\* <SrcStack as Iterator>::next: exhausted sources are popped, the first line
\* found is returned
RECURSIVE SrcNext(_)
SrcNext(stk) ==
  IF stk = << >>
    THEN [some |-> FALSE, text |-> Text("", NoAct), path |-> "", line_num |-> 0,
          stk |-> stk]
  ELSE IF Top(stk).lines # << >>
    THEN Line(SrcHead(Top(stk)), Append(Pop(stk), SrcAdvance(Top(stk))))
  ELSE SrcNext(Pop(stk))

\* the text of a macro usage: the name and the comma-separated fields that
\* follow it.  A field is a sequence of blanks and at most one token.
Use(name, fields) == [kind |-> "use", name |-> name, fields |-> fields]

\* a blank inside a field
Blank == [k |-> "Blank"]

\* MacUsage::new: the lines of the macro, the arguments and the line of the
\* usage
MacUsage(mac, args, path, line_num) ==
  [kind |-> "mac", mac |-> mac, args |-> args, path |-> path, line_num |-> line_num]

\* the characters of a field that are kept: at_eol skips every blank
Kept(field) == SelectSeq(field, LAMBDA piece : piece.k # "Blank")

\* parse_macro_arg: the text up to the ',' or the end of the line, without
\* its blanks
ParseMacroArg(field) == IF Kept(field) = << >> THEN NoExpr ELSE Kept(field)[1]

\* at_eol before the first argument: nothing but blanks is left
AtEol(fields) == fields = << >> \/ (Len(fields) = 1 /\ Kept(fields[1]) = << >>)

\* parse_macro: the arguments it records, and whether it returns.  After the
\* first argument its loop runs while the line has not ended and leaves on
\* a character other than ','; at a ',' it consumes nothing and takes
\* another turn, for ever.
ParseMacro(fields) ==
  IF AtEol(fields) THEN [hang |-> FALSE, args |-> << >>]
  ELSE [hang |-> Len(fields) > 1, args |-> << ParseMacroArg(fields[1]) >>]

\* a `\i` is left in the text of the expression
RECURSIVE HasArg(_)
HasArg(e) ==
  IF e.k = "Arg" THEN TRUE
  ELSE IF e.k \in UnaryKinds THEN HasArg(e.e)
  ELSE IF e.k \in BinaryKinds \cup {"RelOp"} THEN HasArg(e.l) \/ HasArg(e.r)
  ELSE FALSE

\* the expressions of an action
ActExprs(act) ==
  IF act.kind = "op" THEN (IF act.expr.k = "NoExpr" THEN {} ELSE {act.expr})
  ELSE IF act.kind = "pseudo" THEN {act.args[i] : i \in 1..Len(act.args)}
  ELSE {}

\* the action as parsed at the given PC
ParseAct(act, pcv) ==
  IF act.kind = "op" THEN
    (IF act.expr.k = "NoExpr" THEN act ELSE [act EXCEPT !.expr = ParseExpr(@, pcv)])
  ELSE IF act.kind = "pseudo" THEN
    [act EXCEPT !.args = [i \in 1..Len(act.args) |-> ParseExpr(act.args[i], pcv)]]
  ELSE act

\* the table after parse_primary has looked up every name of the line
LookupAll(st, names, slice) ==
  [nm \in Names |-> IF nm \in names THEN Lookup(st, nm, slice)[nm] ELSE st[nm]]

\* a ParsedLine
Parsed(text, n, a, label, action) ==
  [line_num |-> n, path |-> a.cur_path, text |-> text, label |-> label,
   action |-> action, comment |-> text.comment]

\* what parse_line returns: Ok, Err, or nothing when it does not return
ParseOk(parsed, a) == [ok |-> TRUE, hang |-> FALSE, parsed |-> parsed, asm |-> a]

ParseErr(text, n, a) ==
  [ok |-> FALSE, hang |-> FALSE, parsed |-> Parsed(text, n, a, "", NoAct), asm |-> a]

ParseHang(text, n, a) ==
  [ok |-> FALSE, hang |-> TRUE, parsed |-> Parsed(text, n, a, "", NoAct), asm |-> a]

\* parse_line on a name that is followed by the given fields, with the
\* result m of parse_macro.  When the name is not a macro, parse_label takes
\* it for a label if the line has none yet, and what follows must be an
\* action; after a label the name must be an opcode.
ParseUse(text, n, a, m) ==
  IF a.macros[text.act.name].some
    THEN (IF m.hang THEN ParseHang(text, n, a)
          ELSE ParseOk(Parsed(text, n, a, text.label,
                              MacUsage(a.macros[text.act.name].lines, m.args,
                                       a.cur_path, n)), a))
  ELSE IF text.label = "" /\ text.act.fields = << >>
    THEN ParseOk(Parsed(text, n, a, text.act.name, NoAct), a)
  ELSE ParseErr(text, n, a)

\* Assembler::parse_line
ParseLine(text, n, a) ==
  IF text.act.kind = "bad" \/ \E e \in ActExprs(text.act) : HasArg(e)
    THEN ParseErr(text, n, a)
  ELSE IF text.act.kind = "use"
    THEN ParseUse(text, n, a, ParseMacro(text.act.fields))
  ELSE ParseOk(Parsed(text, n, a, text.label, ParseAct(text.act, a.pc)),
               [a EXCEPT !.symtab =
                  LookupAll(@, UNION {ExprNames(e) : e \in ActExprs(text.act)},
                            RefSlice(n))])

\* end_macro: the line, after its label, starts with .endm
EndMacro(text) == text.act.kind = "pseudo" /\ text.act.name = ".endm"

\* the loop of pass1_line over the lines that follow a .mac: every line the
\* stack of sources returns is added to the macro, up to and including the
\* first that ends it; the loop also ends when the stack returns None
RECURSIVE Capture(_, _)
CaptureLine(nx, body) ==
  IF ~nx.some THEN [lines |-> body, stk |-> nx.stk]
  ELSE IF EndMacro(nx.text) THEN [lines |-> Append(body, nx.text), stk |-> nx.stk]
  ELSE Capture(nx.stk, Append(body, nx.text))

Capture(stk, body) == CaptureLine(SrcNext(stk), body)

\* action.is_macro_def: the name of the macro a `.mac name` defines
IsMacroDef(act) ==
  /\ act.kind = "pseudo"
  /\ act.name = ".mac"
  /\ Len(act.args) = 1
  /\ act.args[1].k = "Name"

\* <MacUsage as Action>::pass1, were it to push nothing
MacPass1NoPush(act, a) == Result1(TRUE, 0, a)

\* <MacUsage as Action>::pass1: the lines of the macro become the current
\* source
MacPass1(act, a) ==
  Result1(TRUE, 0,
          [a EXCEPT !.src_stk =
             SrcPush(@, MacSource(act.mac, act.args, act.path, act.line_num))])

\* action.pass1, dispatched on the kind of action
ActPass1(act, a, label, n) ==
  IF act.kind = "op" THEN OpPass1(act, a)
  ELSE IF act.kind = "mac" THEN MacPass1(act, a)
  ELSE PseudoPass1(act, a, label, n)

\* action.pass2, dispatched on the kind of action; a macro usage gives no bytes
ActPass2(act, a, n) ==
  IF act.kind = "op" THEN OpPass2(act, a)
  ELSE IF act.kind = "mac" THEN Result2(TRUE, << >>, a)
  ELSE PseudoPass2(act, a, n)

(***************************************************************************)
(* The two passes, line by line.                                           *)
(***************************************************************************)
Line1(outcome, a, parsed, size) ==
  [outcome |-> outcome, asm |-> a, parsed |-> parsed, size |-> size]

\* pass1_line after action.pass1 has returned r: PC advances by the size
Pass1Acted(parsed, r) ==
  IF r.panic THEN Line1("panic", r.asm, parsed, 0)
  ELSE IF ~r.ok THEN Line1("err", r.asm, parsed, 0)
  ELSE Line1("ok", [r.asm EXCEPT !.pc = WrapAdd(@, r.size)], parsed, r.size)

\* pass1_line on a .mac, with the lines captured for it: the name must be new
Pass1MacroDef(parsed, a, name, cap) ==
  IF a.macros[name].some THEN Line1("err", [a EXCEPT !.src_stk = cap.stk], parsed, 0)
  ELSE Line1("ok", [a EXCEPT !.src_stk = cap.stk,
                             !.macros[name] = [some |-> TRUE, lines |-> cap.lines]],
             parsed, 0)

\* the part of pass1_line that runs the action of a line that is not skipped
Pass1Action(parsed, a) ==
  IF parsed.action.kind = "none" THEN Line1("ok", a, parsed, 0)
  ELSE IF IsMacroDef(parsed.action)
    THEN Pass1MacroDef(parsed, a, parsed.action.args[1].n, Capture(a.src_stk, << >>))
  ELSE Pass1Acted(parsed, ActPass1(parsed.action, a, parsed.label, parsed.line_num))

\* ParsedLine::filter_comment: the text after the ';', trimmed, if any is left
FilterComment(c) ==
  IF c.some /\ TrimEnd(TrimStart(c.s)) # << >> THEN SomeStr(TrimEnd(TrimStart(c.s)))
  ELSE NoneStr

\* the comment of the label of a line, were the line's own comment to come
\* first
CommentLabelOwnFirst(building, comment) == IF comment.some THEN comment ELSE building

\* the comment of the label of a line: the comment that has been built, or
\* else its own
CommentLabel(building, comment) == IF building.some THEN building ELSE comment

\* def_label after def_symbol has returned d: the comment is recorded
DefLabelDefined(a, label, cl, d) ==
  [ok |-> d.ok, panic |-> d.panic,
   asm |-> [a EXCEPT !.symtab =
              IF d.ok /\ ~d.panic /\ cl.some
                THEN [d.symtab EXCEPT ![label].comment = cl] ELSE d.symtab]]

\* def_label after debug_label, were the text of debug_label dropped
DefLabelNotDebugged(a, label, slice, cl, g) ==
  IF ~g.ok THEN [ok |-> FALSE, panic |-> g.panic, asm |-> a]
  ELSE DefLabelDefined(a, label, cl, DefLabel(a.pass, a.symtab, a.pc, label, slice))

\* def_label after debug_label has returned g: its text is on debug_str, and
\* its error is returned before the symbol is defined
DefLabelDebugged(a, label, slice, cl, g) ==
  IF ~g.ok
    THEN [ok |-> FALSE, panic |-> g.panic,
          asm |-> [a EXCEPT !.debug_str = @ \o g.out]]
    ELSE DefLabelDefined([a EXCEPT !.debug_str = @ \o g.out], label, cl,
                         DefLabel(a.pass, a.symtab, a.pc, label, slice))

\* Assembler::def_label with the comment of the label: in pass 1 with a
\* template, the debug line is written first
DefLabelComment(a, label, slice, cl) ==
  IF a.pass = "Pass1" /\ a.debug_fmt.some
    THEN DefLabelDebugged(a, label, slice, cl,
                          DebugLabel(a.debug_fmt.s,
                                     DbgCtx(label, a.pc, cl, a.overflow_checks)))
    ELSE DefLabelDefined(a, label, cl,
                         DefLabel(a.pass, a.symtab, a.pc, label, slice))

\* pass1_line after def_label has returned d
Pass1Labelled(parsed, d) ==
  IF d.panic THEN Line1("panic", d.asm, parsed, 0)
  ELSE IF ~d.ok THEN Line1("err", d.asm, parsed, 0)
  ELSE Pass1Action(parsed, d.asm)

\* pass1_line on a line with a label: the comment that was being built is
\* taken, and the label is defined unless the action is an equ
Pass1Label(parsed, a, cl) ==
  IF IsEqu(parsed.action) THEN Pass1Action(parsed, a)
  ELSE Pass1Labelled(parsed,
                     DefLabelComment(a, parsed.label, LabelSlice(parsed.line_num), cl))

\* the if-stack test of pass1_line: the line is skipped
Gated(parsed, a) ==
  /\ a.if_stack # << >>
  /\ ~Top(a.if_stack)
  /\ ~IsIfAffiliated(parsed.action)

\* a row of the listing: the number of the line, a PC, the bytes shown and
\* the text of the line
Row(line_num, pcv, bs, text) ==
  [line_num |-> line_num, pc |-> pcv, bytes |-> bs, text |-> text]

\* listing_index holds the (path, line_num) of the line already
ListedTwice(parsed, a) ==
  /\ a.listing.some
  /\ \E e \in a.listing_index : e.path = parsed.path /\ e.line_num = parsed.line_num

\* the listing part of pass1_line: the line gets the next row, without bytes
ListStub(parsed, a) ==
  IF ~a.listing.some THEN a
  ELSE [a EXCEPT !.listing_index =
                   @ \cup {[path |-> parsed.path, line_num |-> parsed.line_num,
                            row |-> Len(a.listing.rows) + 1]},
                 !.listing.rows =
                   Append(@, Row(parsed.line_num, a.pc, << >>, parsed.text))]

\* pass1_line once the line has its row in the listing
Pass1Listed(parsed, a) ==
  IF Gated(parsed, a) THEN Line1("skipped", a, parsed, 0)
  ELSE IF parsed.label # ""
    THEN Pass1Label(parsed, [a EXCEPT !.building_comment = NoneStr],
                    CommentLabel(a.building_comment, FilterComment(parsed.comment)))
    ELSE Pass1Action(parsed, a)

\* pass1_line after parse_line has returned p; a (path, line_num) seen before
\* aborts the process when there is a listing
Pass1Parsed(p) ==
  IF p.hang THEN Line1("hang", p.asm, p.parsed, 0)
  ELSE IF ~p.ok THEN Line1("err", p.asm, p.parsed, 0)
  ELSE IF ListedTwice(p.parsed, p.asm) THEN Line1("panic", p.asm, p.parsed, 0)
  ELSE Pass1Listed(p.parsed, ListStub(p.parsed, p.asm))

\* building_comment after a line that has only a comment: the comment and a
\* newline are added to it
Accumulated(building, comment) == SomeStr(building.s \o comment.s \o << 10 >>)

\* the end of pass1_line, were a line without anything to leave
\* building_comment alone
BuildCommentKeptOnBlank(building, parsed, comment) ==
  IF parsed.label # "" \/ parsed.action.kind # "none" THEN NoneStr
  ELSE IF ~comment.some THEN building
  ELSE Accumulated(building, comment)

\* the end of pass1_line: building_comment after the line
BuildComment(building, parsed, comment) ==
  IF ~comment.some \/ parsed.label # "" \/ parsed.action.kind # "none" THEN NoneStr
  ELSE Accumulated(building, comment)

\* pass1_line after its action: reached only when nothing has returned early
Pass1Commented(r) ==
  IF r.outcome # "ok" THEN r
  ELSE [r EXCEPT !.asm.building_comment =
                   BuildComment(@, r.parsed, FilterComment(r.parsed.comment))]

\* Assembler::pass1_line: what happened ("ok": the line is retained, "skipped",
\* "err", "panic"), the assembler afterwards, the parsed line and the size its
\* action returned
Pass1LineOf(text, n, a) == Pass1Commented(Pass1Parsed(ParseLine(text, n, a)))

\* pass2_line after action.pass2 has returned r: PC advances by the number of
\* bytes
Pass2Acted(r) ==
  IF r.ok THEN [r EXCEPT !.asm.pc = WrapAdd(@, Len(r.bytes) % U16)] ELSE r

\* the number of bytes a row of the listing shows
BYTES_PER_LINE == 3

\* the row of the listing that listing_index gives for the line
RowOf(parsed, a) ==
  (CHOOSE e \in a.listing_index :
     e.path = parsed.path /\ e.line_num = parsed.line_num).row

\* the listing part of pass2_line: the row of the line is rewritten with the
\* PC before the action and the first bytes
Pass2Listed(parsed, old_pc, r) ==
  IF r.ok /\ r.asm.listing.some
    THEN [r EXCEPT !.asm.listing.rows[RowOf(parsed, r.asm)] =
                     Row(parsed.line_num, old_pc,
                         SubSeq(r.bytes, 1, IF Len(r.bytes) < BYTES_PER_LINE
                                              THEN Len(r.bytes) ELSE BYTES_PER_LINE),
                         parsed.text)]
    ELSE r

\* the assembler with the label of the line given the current PC as value
Relabelled(parsed, a) ==
  IF parsed.label # "" /\ ~IsEqu(parsed.action)
    THEN [a EXCEPT !.symtab[parsed.label].value = a.pc]
    ELSE a

\* pass2_line, were it to define the label of the line again at the PC of
\* pass 2
Pass2LineRelabelling(parsed, a) ==
  IF parsed.action.kind = "none" THEN Result2(TRUE, << >>, Relabelled(parsed, a))
  ELSE Pass2Listed(parsed, a.pc,
                   Pass2Acted(ActPass2(parsed.action, Relabelled(parsed, a),
                                       parsed.line_num)))

\* Assembler::pass2_line: the result of the line's action and the assembler
\* afterwards
Pass2LineOf(parsed, a) ==
  IF parsed.action.kind = "none" THEN Result2(TRUE, << >>, a)
  ELSE Pass2Listed(parsed, a.pc, Pass2Acted(ActPass2(parsed.action, a, parsed.line_num)))

(***************************************************************************)
(* The state of a run of assemble.                                         *)
(***************************************************************************)
VARIABLES
  src_stk,        \* Assembler.src_stk: the stack of sources
  parsed_lines,   \* Assembler.parsed_lines: the lines retained by pass 1
  pass,           \* Assembler.pass
  symtab,         \* Assembler.symtab
  pc,             \* Assembler.pc
  cur_line,       \* Assembler.cur_line: the number of the current line, 0 for None
  errcount,       \* Assembler.errcount
  output_flag,    \* Assembler.output_flag
  if_stack,       \* Assembler.if_stack
  lines,          \* pass2: the lines taken from parsed_lines
  idx,            \* pass2: the number of lines of `lines` already handled
  output,         \* pass2: the output vector
  ctl,            \* where assemble is: "new", "pass1", "pass1_ok", "pass2",
                  \* "done", "failed", "panicked" or, in a loop it never
                  \* leaves, "hung"
  result,         \* what assemble returned: "none" yet, "ok", "err1" or "err2"
  bytes,          \* AsmInfo.bytes, once assemble has returned Ok
  sizes,          \* observed: the size action.pass1 returned for each retained line
  emitted,        \* observed: for each line handled by pass 2, the PC before it,
                  \* whether its action succeeded and the bytes it returned
  last1,          \* observed: what pass1_line did with the latest line
  program,        \* observed: the lines of the source given to assemble
  macros,         \* Assembler.macros: the body of each defined macro
  debug_fmt,      \* Assembler.debug_fmt: the template of .dbg, if any
  debug_str,      \* Assembler.debug_str
  building_comment, \* Assembler.building_comment
  listing,        \* Assembler.listing: the rows of the listing, if enabled
  listing_index,  \* Assembler.listing_index: the row of each (path, line_num)
  got,            \* the line the latest call of SrcStack::next returned
  overflow_checks, \* the build: whether an arithmetic overflow panics (as in
                  \* a debug build) or wraps (as in a release build)
  symstr,         \* what dump_symtab returned, once it has been called
  label_parsed    \* the latest call of parse_label: the text of the line and
                  \* what it returned

vars ==
  << src_stk, parsed_lines, pass, symtab, pc, cur_line, errcount, output_flag,
     if_stack, lines, idx, output, ctl, result, bytes, sizes, emitted, last1,
     program, macros, debug_fmt, debug_str, building_comment, listing,
     listing_index, got, overflow_checks, symstr, label_parsed >>

\* the fields of the assembler that actions read and change
Asm ==
  [pass |-> pass, pc |-> pc, symtab |-> symtab, if_stack |-> if_stack,
   output_flag |-> output_flag, src_stk |-> src_stk, cur_path |-> "",
   macros |-> macros, debug_fmt |-> debug_fmt, debug_str |-> debug_str,
   building_comment |-> building_comment, listing |-> listing,
   listing_index |-> listing_index, overflow_checks |-> overflow_checks]

\* the lines of pass 1 that have not been read yet
RECURSIVE Remaining(_)
Remaining(stk) ==
  IF stk = << >> THEN << >> ELSE Top(stk).lines \o Remaining(Pop(stk))

\* no line returned yet
NoLine == [some |-> FALSE, text |-> Text("", NoAct), path |-> "", line_num |-> 0]

\* Macro: the lines of a macro, or no macro of that name
NoMacro == [some |-> FALSE, lines |-> << >>]

\* Assembler.macros of Assembler::new
NoMacros == [n \in Names |-> NoMacro]

\* parse_label has not been called
NoLabelParsed == [some |-> FALSE, text |-> << >>, label |-> NoneStr, rest |-> << >>]

\* Assembler::new, for a source holding the given program
InitBuild(programs, list_file, builds) ==
  /\ program \in programs
  /\ overflow_checks \in builds
  /\ symstr = NoneStr
  /\ label_parsed = NoLabelParsed
  /\ macros = NoMacros
  /\ debug_fmt = NoneStr
  /\ debug_str = << >>
  /\ building_comment = NoneStr
  /\ listing = [some |-> list_file, rows |-> << >>]
  /\ listing_index = {}
  /\ got = NoLine
  /\ src_stk = SrcStackNew(StrSrc(program))
  /\ parsed_lines = << >>
  /\ pass = "None"
  /\ symtab = EmptySymtab
  /\ pc = DEFAULT_PC
  /\ cur_line = 0
  /\ errcount = 0
  /\ output_flag = TRUE
  /\ if_stack = << >>
  /\ lines = << >>
  /\ idx = 0
  /\ output = << >>
  /\ ctl = "new"
  /\ result = "none"
  /\ bytes = << >>
  /\ sizes = << >>
  /\ emitted = << >>
  /\ last1 = "none"

\* Assembler::new in a build that checks overflow, as the tests run
InitListing(programs, list_file) == InitBuild(programs, list_file, {TRUE})

\* Assembler::new without a listing
InitWith(programs) == InitListing(programs, FALSE)

\* Assembler::pass1, up to its loop
Pass1Begin ==
  /\ ctl = "new"
  /\ ctl' = "pass1"
  /\ pass' = "Pass1"
  /\ parsed_lines' = << >>
  /\ symtab' = EmptySymtab
  /\ pc' = DEFAULT_PC
  /\ if_stack' = << >>
  /\ sizes' = << >>
  /\ UNCHANGED << src_stk, cur_line, errcount, output_flag, lines, idx, output,
                  result, bytes, emitted, last1, program, macros, debug_fmt,
                  debug_str, building_comment, listing, listing_index, got,
                  overflow_checks, symstr, label_parsed >>

\* the loop of Assembler::pass1, were it to flag an error instead of counting
\* it
Pass1CommitFlag(nx, r) ==
  /\ src_stk' = r.asm.src_stk
  /\ macros' = r.asm.macros
  /\ debug_fmt' = r.asm.debug_fmt
  /\ debug_str' = r.asm.debug_str
  /\ building_comment' = r.asm.building_comment
  /\ listing' = r.asm.listing
  /\ listing_index' = r.asm.listing_index
  /\ cur_line' = nx.line_num
  /\ symtab' = r.asm.symtab
  /\ pc' = r.asm.pc
  /\ if_stack' = r.asm.if_stack
  /\ output_flag' = r.asm.output_flag
  /\ pass' = r.asm.pass
  /\ parsed_lines' = IF r.outcome = "ok" THEN Append(parsed_lines, r.parsed)
                                         ELSE parsed_lines
  /\ sizes' = IF r.outcome = "ok" THEN Append(sizes, r.size) ELSE sizes
  /\ errcount' = IF r.outcome = "err" THEN 1 ELSE errcount
  /\ ctl' = IF r.outcome = "panic" THEN "panicked"
            ELSE IF r.outcome = "hang" THEN "hung" ELSE ctl
  /\ last1' = r.outcome

\* the loop of Assembler::pass1 after pass1_line has returned r for the line nx
Pass1Commit(nx, r) ==
  /\ src_stk' = r.asm.src_stk
  /\ macros' = r.asm.macros
  /\ debug_fmt' = r.asm.debug_fmt
  /\ debug_str' = r.asm.debug_str
  /\ building_comment' = r.asm.building_comment
  /\ listing' = r.asm.listing
  /\ listing_index' = r.asm.listing_index
  /\ cur_line' = nx.line_num
  /\ symtab' = r.asm.symtab
  /\ pc' = r.asm.pc
  /\ if_stack' = r.asm.if_stack
  /\ output_flag' = r.asm.output_flag
  /\ pass' = r.asm.pass
  /\ parsed_lines' = IF r.outcome = "ok" THEN Append(parsed_lines, r.parsed)
                                         ELSE parsed_lines
  /\ sizes' = IF r.outcome = "ok" THEN Append(sizes, r.size) ELSE sizes
  /\ errcount' = IF r.outcome = "err" THEN errcount + 1 ELSE errcount
  /\ ctl' = IF r.outcome = "panic" THEN "panicked"
            ELSE IF r.outcome = "hang" THEN "hung" ELSE ctl
  /\ last1' = r.outcome

\* pass1_line on the line nx that the source stack returned
Pass1Step(nx) ==
  Pass1Commit(nx, Pass1LineOf(nx.text, nx.line_num,
                              [Asm EXCEPT !.src_stk = nx.stk, !.cur_path = nx.path]))

\* one turn of the loop of Assembler::pass1
Pass1Line ==
  /\ ctl = "pass1"
  /\ SrcNext(src_stk).some
  /\ Pass1Step(SrcNext(src_stk))
  /\ UNCHANGED << lines, idx, output, result, bytes, emitted, program, got,
                  overflow_checks, symstr, label_parsed >>

\* the end of Assembler::pass1, were assemble to go on whatever the count
Pass1EndUnchecked ==
  /\ ctl = "pass1"
  /\ ~SrcNext(src_stk).some
  /\ src_stk' = SrcNext(src_stk).stk
  /\ LET count == IF if_stack # << >> THEN errcount + 1 ELSE errcount
     IN  /\ errcount' = count
         /\ ctl' = "pass1_ok"
         /\ result' = result
  /\ UNCHANGED << parsed_lines, pass, symtab, pc, cur_line, output_flag,
                  if_stack, lines, idx, output, bytes, sizes, emitted, last1,
                  program, macros, debug_fmt, debug_str, building_comment,
                  listing, listing_index, got,
                  overflow_checks, symstr, label_parsed >>

\* the end of Assembler::pass1, and the `?` of assemble on its result
Pass1End ==
  /\ ctl = "pass1"
  /\ ~SrcNext(src_stk).some
  /\ src_stk' = SrcNext(src_stk).stk
  /\ LET count == IF if_stack # << >> THEN errcount + 1 ELSE errcount
     IN  /\ errcount' = count
         /\ ctl' = IF count = 0 THEN "pass1_ok" ELSE "failed"
         /\ result' = IF count = 0 THEN result ELSE "err1"
  /\ UNCHANGED << parsed_lines, pass, symtab, pc, cur_line, output_flag,
                  if_stack, lines, idx, output, bytes, sizes, emitted, last1,
                  program, macros, debug_fmt, debug_str, building_comment,
                  listing, listing_index, got,
                  overflow_checks, symstr, label_parsed >>

\* Assembler::pass2, up to its loop; its assertion aborts the process when
\* errors have been counted
Pass2Begin ==
  /\ ctl = "pass1_ok"
  /\ IF errcount = 0
       THEN /\ ctl' = "pass2"
            /\ pc' = DEFAULT_PC
            /\ pass' = "Pass2"
            /\ output' = << >>
            /\ lines' = parsed_lines
            /\ parsed_lines' = << >>
            /\ idx' = 0
       ELSE /\ ctl' = "panicked"
            /\ UNCHANGED << pc, pass, output, lines, parsed_lines, idx >>
  /\ UNCHANGED << src_stk, symtab, cur_line, errcount, output_flag, if_stack,
                  result, bytes, sizes, emitted, last1, program, macros,
                  debug_fmt, debug_str, building_comment, listing,
                  listing_index, got,
                  overflow_checks, symstr, label_parsed >>

\* the loop of Assembler::pass2, were pass2_line to extend the output
\* whatever output_flag is
Pass2CommitAlways(r) ==
  /\ idx' = idx + 1
  /\ src_stk' = r.asm.src_stk
  /\ macros' = r.asm.macros
  /\ debug_fmt' = r.asm.debug_fmt
  /\ debug_str' = r.asm.debug_str
  /\ building_comment' = r.asm.building_comment
  /\ listing' = r.asm.listing
  /\ listing_index' = r.asm.listing_index
  /\ symtab' = r.asm.symtab
  /\ pc' = r.asm.pc
  /\ if_stack' = r.asm.if_stack
  /\ output_flag' = r.asm.output_flag
  /\ pass' = r.asm.pass
  /\ output' = IF r.ok THEN output \o r.bytes ELSE output
  /\ errcount' = IF ~r.ok /\ ~r.panic THEN errcount + 1 ELSE errcount
  /\ ctl' = IF r.panic THEN "panicked" ELSE ctl
  /\ emitted' = Append(emitted, [pc |-> pc, ok |-> r.ok, bytes |-> r.bytes])

\* the loop of Assembler::pass2 after pass2_line has returned r
Pass2Commit(r) ==
  /\ idx' = idx + 1
  /\ src_stk' = r.asm.src_stk
  /\ macros' = r.asm.macros
  /\ debug_fmt' = r.asm.debug_fmt
  /\ debug_str' = r.asm.debug_str
  /\ building_comment' = r.asm.building_comment
  /\ listing' = r.asm.listing
  /\ listing_index' = r.asm.listing_index
  /\ symtab' = r.asm.symtab
  /\ pc' = r.asm.pc
  /\ if_stack' = r.asm.if_stack
  /\ output_flag' = r.asm.output_flag
  /\ pass' = r.asm.pass
  /\ output' = IF r.ok /\ r.asm.output_flag THEN output \o r.bytes ELSE output
  /\ errcount' = IF ~r.ok /\ ~r.panic THEN errcount + 1 ELSE errcount
  /\ ctl' = IF r.panic THEN "panicked" ELSE ctl
  /\ emitted' = Append(emitted, [pc |-> pc, ok |-> r.ok, bytes |-> r.bytes])

\* one turn of the loop of Assembler::pass2: pass2_line on the next retained line
Pass2Line ==
  /\ ctl = "pass2"
  /\ idx < Len(lines)
  /\ Pass2Commit(Pass2LineOf(lines[idx + 1], Asm))
  /\ UNCHANGED << parsed_lines, cur_line, lines, result, bytes, sizes, last1,
                  program, got,
                  overflow_checks, symstr, label_parsed >>

\* the end of Assembler::pass2, and the return of assemble
Pass2End ==
  /\ ctl = "pass2"
  /\ idx = Len(lines)
  /\ ctl' = IF errcount = 0 THEN "done" ELSE "failed"
  /\ result' = IF errcount = 0 THEN "ok" ELSE "err2"
  /\ bytes' = IF errcount = 0 THEN output ELSE bytes
  /\ UNCHANGED << src_stk, parsed_lines, pass, symtab, pc, cur_line, errcount,
                  output_flag, if_stack, lines, idx, output, sizes, emitted,
                  last1, program, macros, debug_fmt, debug_str,
                  building_comment, listing, listing_index, got,
                  overflow_checks, symstr, label_parsed >>

Next ==
  \/ Pass1Begin
  \/ Pass1Line
  \/ Pass1End
  \/ Pass2Begin
  \/ Pass2Line
  \/ Pass2End

(***************************************************************************)
(* Programs.                                                               *)
(***************************************************************************)
\* the longest program of Spec
MaxLines == 3

\* "        lda foo"
LdaFoo == Text("", OpCode("lda", "Abs", Name("foo")))

\* "bar     jmp bar"
BarJmpBar == Text("bar", OpCode("jmp", "Abs", Name("bar")))

\* "foo     = $10"
FooEquSmall == Text("foo", PseudoOp("=", << Num(16) >>))

\* "foo     = $1234"
FooEquLarge == Text("foo", PseudoOp("=", << Num(4660) >>))

\* "foo"
FooLabel == Text("foo", NoAct)

\* "        .if 1"
IfOne == Text("", PseudoOp(".if", << Num(1) >>))

\* "        .if 0"
IfZero == Text("", PseudoOp(".if", << Num(0) >>))

\* "        .else"
Else == Text("", PseudoOp(".else", << >>))

\* "        .endif"
Endif == Text("", PseudoOp(".endif", << >>))

\* "        .word bar"
WordBar == Text("", PseudoOp(".word", << Name("bar") >>))

\* "        .byte 1,'AB'"
ByteLine == Text("", PseudoOp(".byte", << Num(1), Str(<< 65, 66 >>) >>))

\* "        .ds 2,$EA"
DsLine == Text("", PseudoOp(".ds", << Num(2), Num(234) >>))

\* "        ???"
BadLine == Text("", BadText)

SpecLines ==
  { LdaFoo, BarJmpBar, FooEquSmall, FooEquLarge, FooLabel, IfOne, IfZero, Else,
    Endif, WordBar, ByteLine, DsLine, BadLine }

ProgramsOver(alphabet, maxlen) == UNION { [1..n -> alphabet] : n \in 0..maxlen }

Init == InitWith(ProgramsOver(SpecLines, MaxLines))

Spec == Init /\ [][Next]_vars

(***************************************************************************)
(* Programs of conditional assembly.                                       *)
(***************************************************************************)
\* the longest program of SpecIf
MaxIfLines == 5

IfLines == { IfOne, IfZero, Else, Endif, ByteLine }

InitIf == InitWith(ProgramsOver(IfLines, MaxIfLines))

SpecIf == InitIf /\ [][Next]_vars

(***************************************************************************)
(* Programs of one instruction: definitions of foo, the instruction,       *)
(* definitions of foo.                                                     *)
(***************************************************************************)
\* the most definitions of foo on either side of the instruction
MaxDefs == 1

\* "foo     = $FF"
FooEquByte == Text("foo", PseudoOp("=", << Num(255) >>))

\* "foo     = $100"
FooEquWord == Text("foo", PseudoOp("=", << Num(256) >>))

DefLines == { FooEquByte, FooEquWord }

OpMnemonics == { "lda", "ldx", "stx", "jmp", "bne", "asl", "clc" }

\* the modes parse_operand returns
ParserModes == { "Imp", "Imm", "Ind", "IndX", "IndY", "Abs", "AbsX", "AbsY" }

Operands == { Num(0), Num(255), Num(256), Num(4660), Num(65535), Name("foo") }

OpLines ==
  { Text("", OpCode(mn, "Imp", NoExpr)) : mn \in OpMnemonics }
    \cup { Text("", OpCode(t[1], t[2], t[3])) :
             t \in OpMnemonics \X (ParserModes \ {"Imp"}) \X Operands }

OpPrograms ==
  { t[1] \o << t[2] >> \o t[3] :
      t \in ProgramsOver(DefLines, MaxDefs) \X OpLines \X ProgramsOver(DefLines, MaxDefs) }

InitOp == InitWith(OpPrograms)

SpecOp == InitOp /\ [][Next]_vars

(***************************************************************************)
(* Programs of one branch: an .org and the branch.                         *)
(***************************************************************************)
\* how far beyond the range of a signed byte the offsets tried reach
Slack == 2

BranchPcs == { 0, 126, 4096, 65533 }

BranchMnemonics == { "bne", "bcc" }

\* the targets whose offset from the instruction after pcv is tried
Targets(pcv) ==
  { t \in (pcv + 2 + I8_MIN - Slack)..(pcv + 2 + I8_MAX + Slack) : 0 <= t /\ t < U16 }

\* "        .org p"
OrgLine(p) == Text("", PseudoOp(".org", << Num(p) >>))

BranchPrograms ==
  UNION { { << OrgLine(p), Text("", OpCode(mn, "Abs", Num(t))) >> :
              t \in Targets(p), mn \in BranchMnemonics } : p \in BranchPcs }

InitBranch == InitWith(BranchPrograms)

SpecBranch == InitBranch /\ [][Next]_vars

(***************************************************************************)
(* Properties: sizes, definitions and conditional assembly.                *)
(***************************************************************************)
RECURSIVE Sum(_)
Sum(q) == IF q = << >> THEN 0 ELSE Head(q) + Sum(Tail(q))

\* C1: when assemble succeeds, the action of every retained line returned in
\* pass 2 exactly as many bytes as the size it returned in pass 1, also when
\* it refers to a symbol defined on a later line, and the output is as long as
\* the sum of the pass-1 sizes
C1_Pass2BytesMatchPass1Sizes ==
  result = "ok" =>
    /\ \A i \in 1..Len(emitted) : Len(emitted[i].bytes) = sizes[i]
    /\ Len(bytes) = Sum(sizes)

\* the value pass 2 has for the symbol a line defines: the PC for a label, the
\* value of the expression for an equate
Pass2Value(parsed, pcv) ==
  IF IsEqu(parsed.action) THEN Eval(parsed.action.args[1], symtab).val ELSE pcv

\* C2: pass 2 checks every label and every equate against the value pass 1
\* recorded, so that when assemble succeeds every defined symbol has in pass 2
\* the value it had in pass 1
C2_Pass2RechecksDefinitions ==
  result = "ok" =>
    \A i \in 1..Len(emitted) :
      lines[i].label # "" =>
        symtab[lines[i].label].value = Pass2Value(lines[i], emitted[i].pc)

IsIf(t) == t.act.kind = "pseudo" /\ t.act.name = ".if"

IsElse(t) == t.act.kind = "pseudo" /\ t.act.name = ".else"

IsEndif(t) == t.act.kind = "pseudo" /\ t.act.name = ".endif"

\* the ifs open after a line t, given those open before it, innermost last:
\* for each whether its condition holds and whether its .else has been passed
Opened(open, t) ==
  IF IsIf(t) THEN Append(open, [cond |-> t.act.args[1].v # 0, flipped |-> FALSE])
  ELSE IF open = << >> THEN open
  ELSE IF IsElse(t) THEN [open EXCEPT ![Len(open)].flipped = TRUE]
  ELSE IF IsEndif(t) THEN Pop(open)
  ELSE open

\* the ifs that enclose the line after the first i lines of p
RECURSIVE Enclosing(_, _)
Enclosing(p, i) == IF i = 0 THEN << >> ELSE Opened(Enclosing(p, i - 1), p[i])

\* every .else and .endif of p has its .if, no .if has two .else, and every
\* .if is closed
WellNested(p) ==
  /\ Enclosing(p, Len(p)) = << >>
  /\ \A i \in 1..Len(p) :
       /\ IsEndif(p[i]) => Enclosing(p, i - 1) # << >>
       /\ IsElse(p[i]) =>
            Enclosing(p, i - 1) # << >> /\ ~Top(Enclosing(p, i - 1)).flipped

\* the line lies in the selected branch of every if in the sequence
InSelectedBranches(open) ==
  \A k \in 1..Len(open) : open[k].cond # open[k].flipped

\* pass 1 executed line i and retained it
Executed(i) ==
  \E j \in 1..Len(parsed_lines \o lines) : (parsed_lines \o lines)[j].line_num = i

\* C3: in a program whose .if/.else/.endif are well nested, ifs inside
\* suppressed branches included, a line that is not one of the three is
\* executed iff it lies in the selected branch of every if enclosing it
C3_ExecutedIffSelected ==
  (ctl \in {"pass1_ok", "pass2", "done", "failed"} /\ WellNested(program)) =>
    \A i \in 1..Len(program) :
      ~(IsIf(program[i]) \/ IsElse(program[i]) \/ IsEndif(program[i])) =>
        (Executed(i) <=> InSelectedBranches(Enclosing(program, i - 1)))

\* the lines of pass 2 whose action failed
Failed2 == { i \in 1..Len(emitted) : ~emitted[i].ok }

\* C4: pass 1 is left for pass 2 only with no error counted; a run in which
\* pass 1 counted an error executes no pass-2 action and returns no bytes
C4_NoPass2AfterPass1Errors ==
  /\ ctl = "pass1_ok" => errcount = 0
  /\ pass = "Pass2" => errcount = Cardinality(Failed2)
  /\ (pass = "Pass1" /\ errcount > 0) =>
       emitted = << >> /\ bytes = << >> /\ output = << >> /\ result # "ok"
  /\ result = "err1" => pass = "Pass1" /\ errcount > 0

\* pass 1 has counted an error and assemble has returned it
C4_Witness == result = "err1" /\ errcount > 0 /\ emitted = << >> /\ parsed_lines # << >>

\* C5: a line failing in pass 1 adds exactly one to the error count and the
\* driver goes on to the next line until every line has been read; an if left
\* open at the end of pass 1 adds one more; a pass fails iff its final count
\* is not zero
C5_ErrorsCountedAndPassContinues ==
  [][ /\ (ctl = "pass1" /\ Remaining(src_stk') # Remaining(src_stk)) =>
           /\ Remaining(src_stk') = Tail(Remaining(src_stk))
           /\ errcount' = errcount + (IF last1' = "err" THEN 1 ELSE 0)
           /\ last1' = "err" => ctl' = "pass1"
      /\ (ctl = "pass1" /\ ctl' \in {"pass1_ok", "failed"}) =>
           /\ cur_line = Len(program)
           /\ errcount' = errcount + (IF if_stack # << >> THEN 1 ELSE 0)
           /\ ctl' = "failed" <=> errcount' # 0
      /\ (ctl = "pass2" /\ ctl' \in {"done", "failed"}) =>
           (ctl' = "failed" <=> errcount # 0)
    ]_vars

\* two lines have failed, every line has been read and an if is still open
C5_Witness ==
  result = "err1" /\ errcount = 3 /\ if_stack # << >> /\ cur_line = Len(program)

\* C9: a symbol has a defining site iff it has a value
C9_DefinedAtIffValue ==
  \A nm \in Names :
    symtab[nm].present => (symtab[nm].defined_at # NoSlice <=> symtab[nm].value # None)

\* one symbol is defined and another is only referred to
C9_Witness ==
  \E nm, other \in Names :
    /\ symtab[nm].value # None /\ symtab[nm].defined_at = LabelSlice(cur_line)
    /\ symtab[other].present /\ symtab[other].value = None

\* pass 1 is about to read a line that defines its label, which has a value
Redefines(nx) ==
  /\ ctl = "pass1"
  /\ nx.some
  /\ nx.text.label # ""
  /\ nx.text.act.kind # "bad"
  /\ ~Gated([action |-> nx.text.act], Asm)
  /\ symtab[nx.text.label].value # None

\* the value the line defines its label with: the value of the expression for
\* an equate, the PC for a label
DefinedValue(t) ==
  IF IsEqu(t.act) THEN Eval(ParseExpr(t.act.args[1], pc), symtab).val ELSE pc

\* the line left the definition of its label as it was
FirstDefinitionKept(nm) ==
  /\ symtab'[nm].value = symtab[nm].value
  /\ symtab'[nm].defined_at = symtab[nm].defined_at

\* C10 as stated: in pass 1, defining a symbol that has a value is an error
\* exactly when the new value differs from it, and the first definition is
\* never changed
C10_RedefinitionErrorIffDiffers ==
  [][ Redefines(SrcNext(src_stk)) =>
        /\ last1' = "err" <=>
             DefinedValue(SrcNext(src_stk).text) # symtab[SrcNext(src_stk).text.label].value
        /\ FirstDefinitionKept(SrcNext(src_stk).text.label)
    ]_vars

\* C10: in pass 1, defining a symbol that has a value is always an error,
\* whether or not the new value differs from it, and the first definition is
\* never changed
C10_RedefinitionAlwaysError ==
  [][ Redefines(SrcNext(src_stk)) =>
        /\ last1' = "err"
        /\ errcount' = errcount + 1
        /\ FirstDefinitionKept(SrcNext(src_stk).text.label)
    ]_vars

\* foo has been defined twice with the same value and the second definition
\* was an error
C10_Witness ==
  /\ Len(program) >= 2
  /\ program[1] = FooEquSmall
  /\ program[2] = FooEquSmall
  /\ cur_line = 2
  /\ last1 = "err"
  /\ symtab["foo"].value = 16
  /\ symtab["foo"].defined_at = LabelSlice(1)

(***************************************************************************)
(* Properties: the encoding of instructions.                               *)
(***************************************************************************)
\* the byte that is the two's complement encoding of d
TwosComplement(d) == CHOOSE b \in 0..(U8 - 1) : (b - d) % U8 = 0

\* the branch act was handled by pass 2 as e with its target at distance d
\* from the PC after it
BranchEncoded(act, e, d) ==
  /\ IF -128 <= d /\ d <= 127
       THEN e.ok /\ e.bytes = << OP_TABLE[act.mn]["Rel"], TwosComplement(d) >>
       ELSE ~e.ok /\ e.bytes = << >>
  /\ d = 0 => e.bytes[2] = 0
  /\ d = 127 => e.bytes[2] = 127
  /\ d = -128 => e.bytes[2] = 128
  /\ d \in {128, -129} => ~e.ok

\* C6: for a branch at pc with target t, pass 2 emits as operand the two's
\* complement byte of t - (pc + 2) iff that lies in -128..127 and fails
\* otherwise: distance 0 gives $00, 127 gives $7F, -128 gives $80, and 128 and
\* -129 are errors
C6_BranchOffset ==
  \A i \in 1..Len(emitted) :
    (lines[i].action.kind = "op" /\ HasMode(lines[i].action.mn, "Rel")
       /\ lines[i].action.amode = "Abs") =>
      BranchEncoded(lines[i].action, emitted[i],
                    Eval(lines[i].action.expr, symtab).val - (emitted[i].pc + 2))

\* a branch to the farthest target behind it has been encoded as $80, from a
\* PC that is not zero
C6_Witness ==
  /\ Len(emitted) = 2
  /\ lines[2].action.kind = "op"
  /\ emitted[2].pc > 0
  /\ lines[2].action.expr.v = emitted[2].pc + 2 - 128
  /\ emitted[2].ok
  /\ emitted[2].bytes = << OP_TABLE[lines[2].action.mn]["Rel"], 128 >>

\* the zero-page mode that an absolute mode shrinks to
ZeroPageOf == [Abs |-> "Zp", AbsX |-> "ZpX", AbsY |-> "ZpY"]

\* the result of evaluating the operand, an error when there is none
OperandValue(act, st) == IF act.expr.k = "NoExpr" THEN EvErr ELSE Eval(act.expr, st)

\* the mode the instruction resolves to when its operand evaluates to ev
ResolvedMode(act, ev) ==
  IF act.amode = "Abs" /\ HasMode(act.mn, "Rel") THEN "Rel"
  ELSE IF act.amode \in DOMAIN ZeroPageOf
    THEN IF HasMode(act.mn, ZeroPageOf[act.amode]) /\ ev.ok /\ ev.val <= 255
           THEN ZeroPageOf[act.amode]
           ELSE act.amode
    ELSE act.amode

\* pass 1 takes the instruction as of mode m: an error when the mnemonic has
\* no such mode, and the size of the mode otherwise
TakenInPass1(act, m) ==
  IF HasMode(act.mn, m)
    THEN last1' = "ok" /\ sizes' = Append(sizes, byte_size[m])
    ELSE last1' = "err" /\ errcount' = errcount + 1 /\ sizes' = sizes

\* pass 2 takes the instruction as of mode m: when it succeeds, its first
\* byte is the byte of the mode
TakenInPass2(act, m, e) == e.ok => e.bytes[1] = OP_TABLE[act.mn][m]

\* C7: Abs on a mnemonic with a relative encoding resolves to Rel; otherwise
\* Abs, AbsX, AbsY resolve to Zp, ZpX, ZpY iff the mnemonic has that encoding
\* and the operand evaluates to a value of at most $FF, and stay as they are
\* otherwise; every other mode is unchanged; a resolved mode the mnemonic does
\* not have is an error of pass 1
C7_ModeResolution ==
  [][ /\ (ctl = "pass1" /\ SrcNext(src_stk).some
            /\ SrcNext(src_stk).text.act.kind = "op") =>
           TakenInPass1(SrcNext(src_stk).text.act,
                        ResolvedMode(SrcNext(src_stk).text.act,
                                     OperandValue(SrcNext(src_stk).text.act, symtab)))
      /\ (ctl = "pass2" /\ idx < Len(lines) /\ lines[idx + 1].action.kind = "op") =>
           TakenInPass2(lines[idx + 1].action,
                        ResolvedMode(lines[idx + 1].action,
                                     OperandValue(lines[idx + 1].action, symtab)),
                        emitted'[idx + 1])
    ]_vars

\* "lda foo" after "foo = $FF" has been sized and encoded as zero page
C7_Witness ==
  \E i \in 1..Len(emitted) :
    /\ lines[i].action = OpCode("lda", "Abs", Name("foo"))
    /\ symtab["foo"].value = 255
    /\ sizes[i] = 2
    /\ emitted[i].bytes = << 165, 255 >>

\* pass 2 handled the instruction act of mode m, whose operand evaluates to
\* ev, as e
Encoded(act, m, ev, e) ==
  IF act.expr.k = "NoExpr" THEN e.ok /\ e.bytes = << OP_TABLE[act.mn][m] >>
  ELSE IF ~ev.ok THEN ~e.ok
  ELSE IF byte_size[m] = 2
    THEN /\ e.ok <=> ev.val \div 256 = 0
         /\ e.ok => e.bytes = << OP_TABLE[act.mn][m], ev.val % 256 >>
    ELSE /\ e.ok
         /\ e.bytes = << OP_TABLE[act.mn][m], ev.val % 256, ev.val \div 256 >>

\* C8: in pass 2 an instruction whose resolved mode is not relative has as
\* first byte the byte of its mnemonic and mode; a mode with an operand of one
\* byte emits the low byte of the value and fails iff the high byte is not
\* zero; a mode with an operand of two bytes emits the low byte then the high
\* byte; an instruction without operand emits no operand byte
C8_Encoding ==
  \A i \in 1..Len(emitted) :
    (lines[i].action.kind = "op"
       /\ ResolvedMode(lines[i].action, OperandValue(lines[i].action, symtab)) # "Rel") =>
      Encoded(lines[i].action,
              ResolvedMode(lines[i].action, OperandValue(lines[i].action, symtab)),
              OperandValue(lines[i].action, symtab), emitted[i])

\* an immediate operand of $100 has been refused
C8_Witness ==
  \E i \in 1..Len(emitted) :
    /\ lines[i].action = OpCode("lda", "Imm", Num(256))
    /\ ~emitted[i].ok
    /\ errcount = 1

(***************************************************************************)
(* Programs with a macro: the definition of inw, at most MaxBody lines of  *)
(* body, the .endm or nothing, and at most MaxUses lines after it.         *)
(***************************************************************************)
\* the longest body of a macro of SpecMac
MaxBody == 2

\* the most lines after the macro in SpecMac
MaxUses == 2

\* "        .mac inw"
MacInw == Text("", PseudoOp(".mac", << Name("inw") >>))

\* "        inc \1"
IncArg == Text("", OpCode("inc", "Abs", Arg(1)))

\* "        inc \1+1"
IncArgNext == Text("", OpCode("inc", "Abs", Bin("Add", Arg(1), Num(1))))

\* "        .endm"
Endm == Text("", PseudoOp(".endm", << >>))

\* "        inw"
UseNone == Text("", Use("inw", << >>))

\* "        inw $02 "
UseByte == Text("", Use("inw", << << Blank, Num(2), Blank >> >>))

\* "bar     inw foo"
BarUseFoo == Text("bar", Use("inw", << << Blank, Name("foo") >> >>))

\* "        inw $02,$03"
UseTwo == Text("", Use("inw", << << Blank, Num(2) >>, << Num(3) >> >>))

BodyLines == {IncArg, IncArgNext, FooLabel}

EndLines == {<< Endm >>, << >>}

UseLines == {UseNone, UseByte, BarUseFoo, UseTwo, FooEquLarge, IfZero, Endif}

MacPrograms ==
  { << MacInw >> \o body \o end \o uses :
      body \in ProgramsOver(BodyLines, MaxBody), end \in EndLines,
      uses \in ProgramsOver(UseLines, MaxUses) }

InitMac == InitWith(MacPrograms)

SpecMac == InitMac /\ [][Next]_vars

(***************************************************************************)
(* assemble as a function of the program, for comparing two programs.      *)
(***************************************************************************)
Ran(a, errs, kept, abort) == [asm |-> a, errs |-> errs, kept |-> kept, abort |-> abort]

\* the loop of Assembler::pass1 from the assembler a on, with errs errors
\* counted and the lines kept retained
RECURSIVE RunPass1(_, _, _)
Run1Done(r, errs, kept) ==
  IF r.outcome \in {"panic", "hang"} THEN Ran(r.asm, errs, kept, TRUE)
  ELSE RunPass1(r.asm, IF r.outcome = "err" THEN errs + 1 ELSE errs,
                IF r.outcome = "ok" THEN Append(kept, r.parsed) ELSE kept)

Run1Line(nx, a, errs, kept) ==
  IF ~nx.some
    THEN Ran(a, IF a.if_stack # << >> THEN errs + 1 ELSE errs, kept, FALSE)
    ELSE Run1Done(Pass1LineOf(nx.text, nx.line_num,
                              [a EXCEPT !.src_stk = nx.stk, !.cur_path = nx.path]),
                  errs, kept)

RunPass1(a, errs, kept) == Run1Line(SrcNext(a.src_stk), a, errs, kept)

Ran2(a, errs, out, abort) == [asm |-> a, errs |-> errs, out |-> out, abort |-> abort]

\* the loop of Assembler::pass2 over the retained lines from the i-th on
RECURSIVE RunPass2(_, _, _, _, _)
Run2Done(r, errs, out, kept, i) ==
  IF r.panic THEN Ran2(r.asm, errs, out, TRUE)
  ELSE RunPass2(r.asm, IF r.ok THEN errs ELSE errs + 1,
                IF r.ok /\ r.asm.output_flag THEN out \o r.bytes ELSE out, kept, i + 1)

RunPass2(a, errs, out, kept, i) ==
  IF i > Len(kept) THEN Ran2(a, errs, out, FALSE)
  ELSE Run2Done(Pass2LineOf(kept[i], a), errs, out, kept, i)

\* what assemble returns after pass 2
Assembled2(r2) ==
  IF r2.abort THEN [result |-> "abort", bytes |-> << >>]
  ELSE IF r2.errs # 0 THEN [result |-> "err2", bytes |-> << >>]
  ELSE [result |-> "ok", bytes |-> r2.out]

\* what assemble returns after pass 1
Assembled1(r1) ==
  IF r1.abort THEN [result |-> "abort", bytes |-> << >>]
  ELSE IF r1.errs # 0 THEN [result |-> "err1", bytes |-> << >>]
  ELSE Assembled2(RunPass2([r1.asm EXCEPT !.pc = DEFAULT_PC, !.pass = "Pass2"],
                           0, << >>, r1.kept, 1))

\* assemble on a source holding the given lines, without a listing
Assemble(prog) ==
  Assembled1(RunPass1([pass |-> "Pass1", pc |-> DEFAULT_PC, symtab |-> EmptySymtab,
                       if_stack |-> << >>, output_flag |-> TRUE,
                       src_stk |-> SrcStackNew(StrSrc(prog)), cur_path |-> "",
                       macros |-> NoMacros, debug_fmt |-> NoneStr,
                       debug_str |-> << >>, building_comment |-> NoneStr,
                       listing |-> [some |-> FALSE, rows |-> << >>],
                       listing_index |-> {}, overflow_checks |-> TRUE],
                      0, << >>))

(***************************************************************************)
(* Properties: macros.                                                     *)
(***************************************************************************)
\* the first .endm of the program, 0 when it has none
FirstEndm(prog) ==
  IF \E i \in 1..Len(prog) : EndMacro(prog[i])
    THEN CHOOSE i \in 1..Len(prog) : EndMacro(prog[i]) /\ \A j \in 1..(i - 1) : ~EndMacro(prog[j])
    ELSE 0

\* the arguments written on a line that uses a macro: its fields, trimmed
WrittenArgs(text) ==
  IF AtEol(text.act.fields) THEN << >>
  ELSE [i \in 1..Len(text.act.fields) |-> ParseMacroArg(text.act.fields[i])]

\* the program starts with the definition of a macro that is ended, and
\* every later line that uses it gives it its one argument
Expandable(prog) ==
  /\ prog # << >>
  /\ IsMacroDef(prog[1].act)
  /\ FirstEndm(prog) # 0
  /\ \A i \in 1..Len(prog) : prog[i].act.kind = "use" => Len(WrittenArgs(prog[i])) = 1

\* the lines that stand for a usage of the macro with the given body: the
\* label of the usage, then each line of the body with every \k replaced by
\* the k-th argument
Inlined(text, body) ==
  (IF text.label = "" THEN << >> ELSE << Text(text.label, NoAct) >>)
    \o [i \in 1..Len(body) |-> ReplaceArgs(body[i], WrittenArgs(text), 1)]

\* the lines after the definition with each usage replaced by the body
RECURSIVE InlineAll(_, _)
InlineAll(rest, body) ==
  IF rest = << >> THEN << >>
  ELSE (IF Head(rest).act.kind = "use" THEN Inlined(Head(rest), body)
                                       ELSE << Head(rest) >>)
         \o InlineAll(Tail(rest), body)

\* the program with its macro substituted inline; the .endm is part of every
\* copy when withEndm, and left out otherwise
Inline(prog, withEndm) ==
  InlineAll(SubSeq(prog, FirstEndm(prog) + 1, Len(prog)),
            SubSeq(prog, 2, IF withEndm THEN FirstEndm(prog) ELSE FirstEndm(prog) - 1))

\* assemble has returned
Returns == ctl \in {"done", "failed"}

\* what assemble returned
Outcome == [result |-> result, bytes |-> bytes]

\* the number of lines retained by pass 1 that satisfy P
CountKept(P(_)) == Cardinality({i \in 1..Len(lines) : P(lines[i])})

IsEndmLine(parsed) == parsed.action.kind = "pseudo" /\ parsed.action.name = ".endm"

IsUsageLine(parsed) == parsed.action.kind = "mac"

C13_UsageParsedFieldByField ==
  /\ ctl # "hung"
  /\ \A i \in 1..Len(parsed_lines) :
       (parsed_lines[i].action.kind = "mac" /\ parsed_lines[i].path = "src") =>
         parsed_lines[i].action.args = WrittenArgs(program[parsed_lines[i].line_num])

\* the program starts with the definition of a macro that no .endm ends
Unterminated(prog) ==
  /\ prog # << >>
  /\ IsMacroDef(prog[1].act)
  /\ FirstEndm(prog) = 0

\* C14: a .mac whose body runs to the end of the input without an .endm is
\* an error: pass 1 counts it and the assembly fails.
C14_UnterminatedMacroFails ==
  Unterminated(program) =>
    /\ ctl \notin {"pass1_ok", "pass2", "done"}
    /\ ctl = "failed" => errcount > 0

\* assemble with a listing, on the programs with a macro
InitList == InitListing(MacPrograms, TRUE)

SpecList == InitList /\ [][Next]_vars

\* the program expands its macro: a line outside every .if uses it
Expands(prog) ==
  /\ Expandable(prog)
  /\ \E i \in 1..Len(prog) : prog[i].act.kind = "use"
  /\ \A i \in 1..Len(prog) : ~IsIf(prog[i])

\* the row of the listing for the i-th line handled by pass 2 holds the PC
\* the line was at and the first bytes it gave
RowFilled(i) ==
  \E j \in 1..Len(listing.rows) :
    /\ listing.rows[j].line_num = lines[i].line_num
    /\ listing.rows[j].text = lines[i].text
    /\ listing.rows[j].pc = emitted[i].pc
    /\ listing.rows[j].bytes =
         SubSeq(emitted[i].bytes, 1,
                IF Len(emitted[i].bytes) < BYTES_PER_LINE THEN Len(emitted[i].bytes)
                                                          ELSE BYTES_PER_LINE)

\* C15: with a listing, a program that uses a macro assembles; the listing
\* has a row for every line pass 1 processed, a separate row for each line
\* of an expanded body included, all with the number of the line of the
\* usage, and pass 2 fills each row with the PC and the bytes of its own
\* line.
C15_ListingOfExpansion ==
  Expands(program) =>
    /\ ctl # "panicked"
    /\ ctl \in {"pass1", "pass1_ok"} => Len(listing.rows) >= Len(parsed_lines)
    /\ ctl = "done" => \A i \in 1..Len(lines) :
                         lines[i].action.kind # "none" => RowFilled(i)

(***************************************************************************)
(* Programs that switch the output off and on.                             *)
(***************************************************************************)
\* the longest program of SpecOnOff
MaxOnOffLines == 4

\* "        .off"
OffLine == Text("", PseudoOp(".off", << >>))

\* "        .on"
OnLine == Text("", PseudoOp(".on", << >>))

\* "        jmp foo"
JmpFoo == Text("", OpCode("jmp", "Abs", Name("foo")))

OnOffLines == {OffLine, OnLine, JmpFoo, FooLabel, ByteLine}

InitOnOff == InitWith(ProgramsOver(OnOffLines, MaxOnOffLines))

SpecOnOff == InitOnOff /\ [][Next]_vars

(***************************************************************************)
(* Properties: .on and .off.                                               *)
(***************************************************************************)
IsOnOff(act) == act.kind = "pseudo" /\ act.name \in {".on", ".off"}

\* the program without its .on and .off lines
WithoutOnOff(prog) == SelectSeq(prog, LAMBDA t : ~IsOnOff(t.act))

\* the values pass 1 gives the symbols of a program
Pass1Values(prog) ==
  LET st == RunPass1([Asm EXCEPT !.pass = "Pass1", !.src_stk = SrcStackNew(StrSrc(prog)),
                                 !.symtab = EmptySymtab, !.pc = DEFAULT_PC],
                     0, << >>).asm.symtab
  IN  [nm \in Names |-> st[nm].value]

\* what the latest .on or .off up to the i-th retained line asked for; the
\* output is on when there is none
SwitchedOn(i) ==
  LET js == {j \in 1..i : IsOnOff(lines[j].action)}
  IN  js = {} \/ lines[CHOOSE j \in js : \A k \in js : k <= j].action.name = ".on"

\* the bytes of the lines among the first n handled by pass 2 that succeeded
\* with the output on
RECURSIVE BytesWhileOn(_)
BytesWhileOn(n) ==
  IF n = 0 THEN << >>
  ELSE BytesWhileOn(n - 1)
         \o (IF emitted[n].ok /\ SwitchedOn(n) THEN emitted[n].bytes ELSE << >>)

\* C16: .on and .off have size 0 and change output_flag in pass 2 only.
\* While the flag is false the bytes of a line are not appended to the
\* output, but the PC advances by their number, as it advances by the size
\* in pass 1; the values of the labels are those of the program without its
\* .on and .off lines; and the output is the concatenation of the bytes of
\* the lines executed while the flag was true.
C16_OnOffGateOutputOnly ==
  [][ /\ ctl = "pass1" =>
           /\ output_flag' = output_flag
           /\ (last1' = "ok" /\ Len(parsed_lines') > Len(parsed_lines)) =>
                /\ pc' = WrapAdd(pc, Top(sizes'))
                /\ IsOnOff(Top(parsed_lines').action) => Top(sizes') = 0
      /\ ctl' = "pass1_ok" => [nm \in Names |-> symtab'[nm].value]
                                = Pass1Values(WithoutOnOff(program))
      /\ (ctl = "pass2" /\ idx' = idx + 1) =>
           /\ output_flag' = (IF IsOnOff(lines[idx'].action)
                                THEN lines[idx'].action.name = ".on" ELSE output_flag)
           /\ Top(emitted').ok => pc' = WrapAdd(pc, Len(Top(emitted').bytes))
           /\ ~output_flag' => output' = output
           /\ (output = BytesWhileOn(idx))' ]_vars

\* C16 witness: the assembly is done; a line gave bytes while the output was
\* off and a later line gave bytes that are in the output
C16_Witness ==
  /\ ctl = "done"
  /\ \E i, j \in 1..Len(lines) :
       /\ i < j
       /\ ~SwitchedOn(i) /\ emitted[i].bytes # << >>
       /\ SwitchedOn(j) /\ emitted[j].bytes # << >>
       /\ bytes = emitted[j].bytes
       /\ emitted[j].pc = Len(emitted[i].bytes)

(***************************************************************************)
(* Programs with debug templates.  A template is given by its items:       *)
(* literal characters, {L}, and {V} with its sign and the hexadecimal      *)
(* digits of its offset.                                                   *)
(***************************************************************************)
\* the longest program of SpecDbg
MaxDbgLines == 3

Lit(c) == [t |-> "lit", c |-> c, neg |-> FALSE, digits |-> << >>]

LField == [t |-> "L", c |-> 0, neg |-> FALSE, digits |-> << >>]

VField(neg, digits) == [t |-> "V", c |-> 0, neg |-> neg, digits |-> digits]

\* the text of an item of a template
ItemText(item) ==
  IF item.t = "lit" THEN << item.c >>
  ELSE IF item.t = "L" THEN << 123, 76, 125 >>
  ELSE << 123, 86 >> \o (IF item.neg THEN << 45 >> ELSE << >>)
         \o [i \in 1..Len(item.digits) |-> HexChar(item.digits[i])] \o << 125 >>

RECURSIVE TemplateText(_)
TemplateText(items) ==
  IF items = << >> THEN << >> ELSE ItemText(Head(items)) \o TemplateText(Tail(items))

\* "{L}:{V}"
TemplateLV == << LField, Lit(58), VField(FALSE, << >>) >>

\* "P:{VC000}:{L}"
TemplateP == << Lit(80), Lit(58), VField(FALSE, << 12, 0, 0, 0 >>), Lit(58), LField >>

\* "{L}:{V-1000}"
TemplateNeg == << LField, Lit(58), VField(TRUE, << 1, 0, 0, 0 >>) >>

\* "{V100000000}"
TemplateWide == << VField(FALSE, << 1, 0, 0, 0, 0, 0, 0, 0, 0 >>) >>

Templates == {TemplateLV, TemplateP, TemplateNeg, TemplateWide}

\* "        .dbg '<template>'"
DbgLine(items) == Text("", PseudoOp(".dbg", << Str(TemplateText(items)) >>))

\* "        .dbg"
DbgNone == Text("", PseudoOp(".dbg", << >>))

DbgLines ==
  { DbgLine(t) : t \in Templates }
    \cup {DbgNone, OrgLine(32768), OrgLine(4660), FooLabel, BarJmpBar, FooEquLarge}

\* assemble in either build
InitDbg == InitBuild(ProgramsOver(DbgLines, MaxDbgLines), FALSE, BOOLEAN)

SpecDbg == InitDbg /\ [][Next]_vars

(***************************************************************************)
(* Properties: the debug string.                                           *)
(***************************************************************************)
\* new is old followed by exactly one line that ends with a newline
OneLineMore(old, new) ==
  /\ Len(new) > Len(old)
  /\ SubSeq(new, 1, Len(old)) = old
  /\ new[Len(new)] = 10
  /\ \A i \in (Len(old) + 1)..(Len(new) - 1) : new[i] # 10

\* the line pass 1 is about to read defines its label at the current PC
DefinesLabel(t) == t.label # "" /\ ~IsEqu(t.act)

\* C17: with a template set, every label defined at the current PC in pass 1
\* appends exactly one line, ended by a newline, to debug_str; a line
\* without a label, or whose label is given its value by = or .equ, appends
\* nothing; nothing is appended without a template; and pass 2 appends
\* nothing.
C17_OneDebugLinePerLabel ==
  [][ /\ (ctl = "pass1" /\ SrcNext(src_stk).some /\ last1' = "ok") =>
           IF DefinesLabel(SrcNext(src_stk).text) /\ debug_fmt.some
             THEN OneLineMore(debug_str, debug_str')
             ELSE debug_str' = debug_str
      /\ ctl \in {"pass1_ok", "pass2"} => debug_str' = debug_str ]_vars

\* C17 witness: an assembly with a template, a label and an equ is done, and
\* debug_str holds one line
C17_Witness ==
  /\ ctl = "done"
  /\ debug_fmt.some
  /\ \E i \in 1..Len(lines) : IsEqu(lines[i].action)
  /\ \E i \in 1..Len(lines) : lines[i].label # "" /\ ~IsEqu(lines[i].action)
  /\ Cardinality({i \in 1..Len(debug_str) : debug_str[i] = 10}) = 1

\* the offset a sequence of hexadecimal digits denotes, modulo 2^32
RECURSIVE OffsetOf(_)
OffsetOf(digits) ==
  IF digits = << >> THEN 0
  ELSE (OffsetOf(SubSeq(digits, 1, Len(digits) - 1)) % 134217728) * 16
         + digits[Len(digits)]

\* the hexadecimal digits of y, most significant first, on n digits
RECURSIVE Padded(_, _)
Padded(y, n) ==
  IF n = 0 THEN << >> ELSE Append(Padded(y \div 16, n - 1), HexChar(y % 16))

\* a sequence of digits without its leading zeros, but for the last digit
RECURSIVE Unpadded(_)
Unpadded(ds) == IF Len(ds) > 1 /\ Head(ds) = 48 THEN Unpadded(Tail(ds)) ELSE ds

\* the uppercase hexadecimal digits, without padding, of x modulo 2^32, for
\* x between -2^31 and 2^31
HexMod32(x) ==
  IF x >= 0 THEN Unpadded(Padded(x, 8))
  ELSE << HexChar(8 + ((x + 2147483647) + 1) \div 268435456) >>
         \o Padded(((x + 2147483647) + 1) % 268435456, 7)

\* what an item of the template stands for in the line of a label
ItemRendered(item, label, value) ==
  IF item.t = "lit" THEN << item.c >>
  ELSE IF item.t = "L" THEN NameText[label]
  ELSE HexMod32(IF item.neg THEN value - OffsetOf(item.digits)
                            ELSE value + OffsetOf(item.digits))

RECURSIVE Rendered(_, _, _)
Rendered(items, label, value) ==
  IF items = << >> THEN << 10 >>
  ELSE ItemRendered(Head(items), label, value) \o Rendered(Tail(items), label, value)

\* the items of the template that is set
ItemsOf(fmt) == CHOOSE t \in Templates : TemplateText(t) = fmt.s

\* C18: in the line of a label, {V}, {Vhex} and {V-hex} give the value of
\* the label plus the hexadecimal offset, minus it with '-', in uppercase
\* hexadecimal digits without padding; the sum is not reduced modulo 2^16
\* but computed modulo 2^32, whatever the offset.
C18_ValuePlusOffsetInHex ==
  [][ (/\ ctl = "pass1"
       /\ SrcNext(src_stk).some
       /\ DefinesLabel(SrcNext(src_stk).text)
       /\ debug_fmt.some
       /\ symtab[SrcNext(src_stk).text.label].value = None) =>
        /\ ctl' = "pass1"
        /\ debug_str' = debug_str \o Rendered(ItemsOf(debug_fmt),
                                              SrcNext(src_stk).text.label, pc) ]_vars

(***************************************************************************)
(* Programs with comments.                                                 *)
(***************************************************************************)
\* the longest program of SpecCom
MaxComLines == 4

\* "; A"
CommentA == TextC("", NoAct, SomeStr(<< 32, 65 >>))

\* ";B "
CommentB == TextC("", NoAct, SomeStr(<< 66, 32 >>))

\* "; "
EmptyComment == TextC("", NoAct, SomeStr(<< 32 >>))

\* ""
BlankLine == Text("", NoAct)

\* "foo     ; C"
FooTrailing == TextC("foo", NoAct, SomeStr(<< 32, 67 >>))

ComLines ==
  {CommentA, CommentB, EmptyComment, BlankLine, FooTrailing, BarJmpBar, FooEquLarge}

InitCom == InitWith(ProgramsOver(ComLines, MaxComLines))

SpecCom == InitCom /\ [][Next]_vars

(***************************************************************************)
(* Properties: the comments of labels.                                     *)
(***************************************************************************)
\* the text of a comment without its blanks; the comments of SpecCom have no
\* blank inside
Stripped(c) == SelectSeq(c.s, LAMBDA ch : ch # 32)

\* the line has a comment with some text
HasComment(t) == t.comment.some /\ Stripped(t.comment) # << >>

\* the line has nothing but a comment with some text
CommentOnly(t) == t.label = "" /\ t.act.kind = "none" /\ HasComment(t)

\* the first of the comment-only lines that come immediately before line i
RunStart(i) ==
  CHOOSE j \in 1..i :
    /\ \A m \in j..(i - 1) : CommentOnly(program[m])
    /\ j > 1 => ~CommentOnly(program[j - 1])

\* the text of the comment-only lines j..(i - 1), each followed by a newline
RECURSIVE RunText(_, _)
RunText(j, i) ==
  IF j >= i THEN << >>
  ELSE Stripped(program[j].comment) \o << 10 >> \o RunText(j + 1, i)

\* the comment bound to the label of line i
Bound(i) ==
  IF RunStart(i) < i THEN SomeStr(RunText(RunStart(i), i))
  ELSE IF HasComment(program[i]) THEN SomeStr(Stripped(program[i].comment))
  ELSE NoneStr

\* the comment the symbol should have: that of the line that defines it as a
\* label
BoundTo(nm) ==
  IF symtab[nm].defined_at.part = "label" /\ ~IsEqu(program[symtab[nm].defined_at.line].act)
    THEN Bound(symtab[nm].defined_at.line)
    ELSE NoneStr

\* C19: when pass 1 has succeeded, a label that is not given its value by
\* an equ has for comment the text of the comment-only lines that come
\* immediately before its line, each followed by a newline, if there are
\* any; otherwise the comment at the end of its own line, if it has text;
\* otherwise none.  Comment-only lines that a blank line, or a line with a
\* label or an action, separates from the label are not bound to it, and a
\* symbol defined by an equ has no comment.
C19_LabelComment ==
  ctl = "pass1_ok" => \A nm \in Names : symtab[nm].comment = BoundTo(nm)

\* C19 witness: pass 1 has succeeded on "; A", ";B ", "foo ; C"; foo has the
\* comment built from the two lines, not its own
C19_Witness ==
  /\ ctl = "pass1_ok"
  /\ program = << CommentA, CommentB, FooTrailing >>
  /\ symtab["foo"].comment = SomeStr(<< 65, 10, 66, 10 >>)

\* the line that pass 1 is about to read
Coming == SrcNext(src_stk).text

\* pass 1 reads a line and reaches the end of pass1_line
Pass1Completes == ctl = "pass1" /\ SrcNext(src_stk).some /\ last1' = "ok"

MaxSrcLines == 2

\* the deepest stack of SpecStk
MaxDepth == 2

StkTexts == {LdaFoo, FooLabel}

\* the sources pushed: the file "a", and the lines of a macro used at
\* line 7 of file "c"
StkSources ==
  { StrSrcNew(t, p) : t \in ProgramsOver(StkTexts, MaxSrcLines), p \in {"a"} }
    \cup { MacSource(t, << Num(2) >>, "c", 7) :
             t \in ProgramsOver({Text("", OpCode("inc", "Abs", Arg(1)))}, MaxSrcLines) }

InitStk == InitWith(ProgramsOver(StkTexts, MaxSrcLines))

\* src_stk.push(src)
StkPush ==
  /\ Len(src_stk) < MaxDepth
  /\ \E src \in StkSources : src_stk' = SrcPush(src_stk, src)
  /\ UNCHANGED << parsed_lines, pass, symtab, pc, cur_line, errcount, output_flag,
                  if_stack, lines, idx, output, ctl, result, bytes, sizes, emitted,
                  last1, program, macros, debug_fmt, debug_str, building_comment,
                  listing, listing_index, got,
                  overflow_checks, symstr, label_parsed >>

\* the line, or None, that a call of next returned
Returned(nx) ==
  [some |-> nx.some, text |-> nx.text, path |-> nx.path, line_num |-> nx.line_num]

\* src_stk.next()
StkNext ==
  /\ got' = Returned(SrcNext(src_stk))
  /\ src_stk' = SrcNext(src_stk).stk
  /\ UNCHANGED << parsed_lines, pass, symtab, pc, cur_line, errcount, output_flag,
                  if_stack, lines, idx, output, ctl, result, bytes, sizes, emitted,
                  last1, program, macros, debug_fmt, debug_str, building_comment,
                  listing, listing_index,
                  overflow_checks, symstr, label_parsed >>

NextStk ==
  \/ StkPush
  \/ StkNext

SpecStk == InitStk /\ [][NextStk]_vars

(***************************************************************************)
(* Properties: the stack of sources.                                       *)
(***************************************************************************)
\* the lines a source has yet to give, with the path and the number each of
\* them has in that source
LinesOf(src) ==
  [i \in 1..Len(src.lines) |->
     [some |-> TRUE,
      text |-> IF src.kind = "mac"
                 THEN TextC(src.lines[i].label,
                            ReplaceAct(src.lines[i].act, 1, src.args[1]),
                            src.lines[i].comment)
                 ELSE src.lines[i],
      path |-> src.path,
      line_num |-> IF src.kind = "mac" THEN src.line_num ELSE src.line_num + i - 1]]

\* the lines the stack has yet to give, the most recently pushed source first
RECURSIVE DepthFirst(_)
DepthFirst(stk) ==
  IF stk = << >> THEN << >> ELSE LinesOf(Top(stk)) \o DepthFirst(Pop(stk))

\* the sources of stk above the first n were exhausted and are gone from stk2,
\* whose sources below the top are those of stk
PoppedTo(stk, stk2) ==
  /\ Len(stk2) <= Len(stk)
  /\ \A i \in 1..Len(stk) : i > Len(stk2) => stk[i].lines = << >>
  /\ \A i \in 1..Len(stk2) : i < Len(stk2) => stk2[i] = stk[i]

DumpSymtab ==
  /\ ctl = "done"
  /\ result = "ok"
  /\ ~symstr.some
  /\ \E order \in IterOrders(symtab) : symstr' = SomeStr(DumpSymtabOf(symtab, order))
  /\ UNCHANGED << src_stk, parsed_lines, pass, symtab, pc, cur_line, errcount,
                  output_flag, if_stack, lines, idx, output, ctl, result, bytes,
                  sizes, emitted, last1, program, macros, debug_fmt, debug_str,
                  building_comment, listing, listing_index, got,
                  overflow_checks, label_parsed >>

NextDump ==
  \/ Next
  \/ DumpSymtab

\* the longest program of SpecDump, after the lines of Skipped
MaxDumpLines == 3

\* "inw     = 1"
InwEquOne == Text("inw", PseudoOp("=", << Num(1) >>))

\* "bar     = 5"
BarEquFive == Text("bar", PseudoOp("=", << Num(5) >>))

\* "foo     = 5"
FooEquFive == Text("foo", PseudoOp("=", << Num(5) >>))

\* "        .if 0", "        lda foo", "        .endif"
Skipped == << IfZero, LdaFoo, Endif >>

DumpLinesOf == {InwEquOne, BarEquFive, FooEquFive, FooLabel}

DumpPrograms ==
  {head \o tail : head \in {<< >>, Skipped}, tail \in ProgramsOver(DumpLinesOf, MaxDumpLines)}

InitDump == InitWith(DumpPrograms)

SpecDump == InitDump /\ [][NextDump]_vars

(***************************************************************************)
(* Properties: the order of the dump.                                      *)
(***************************************************************************)
\* a comes before b by value, and by name when the values are equal
ValueThenName(a, b) ==
  \/ a.value < b.value
  \/ a.value = b.value /\ CmpStr(NameText[a.name], NameText[b.name]) = "Less"

\* the symbols of the table in ascending order of value, then of name
ByValueThenName(st) ==
  CHOOSE v \in {Values(st, o) : o \in IterOrders(st)} :
    \A i, j \in DOMAIN v : i < j => ValueThenName(v[i], v[j])

\* every symbol of the table has a value
AllDefined(st) == \A n \in Present(st) : st[n].value # None

\* C21: the dump of a table whose symbols are all defined lists them in
\* ascending order of value, and those of equal value in ascending order of
\* name: it is a function of the (name, value) pairs of the table alone.
C21_DumpByValueThenName ==
  (symstr.some /\ AllDefined(symtab)) =>
     symstr.s = DumpLines(ByValueThenName(symtab))

\* the symbols of the table, as the sort sees them
Symbols(st) == {Sym(n, st[n].value) : n \in Present(st)}

\* a <= b in the order of the sort
Le(a, b) == Cmp(a, b) # "Greater"

\* cmp(b, a) is the reverse of cmp(a, b)
Reverse(o) == IF o = "Less" THEN "Greater" ELSE IF o = "Greater" THEN "Less" ELSE "Equal"

\* C29: on the symbols of the table that is dumped, defined or not, the
\* comparison of the sort is transitive and cmp(a, b) is the reverse of
\* cmp(b, a).
C29_CmpIsTotalPreorder ==
  symstr.some =>
    /\ \A a, b \in Symbols(symtab) : Cmp(a, b) = Reverse(Cmp(b, a))
    /\ \A a, b, c \in Symbols(symtab) : (Le(a, b) /\ Le(b, c)) => Le(a, c)

(***************************************************************************)
(* Properties: the symbols that pass 2 evaluates.                          *)
(***************************************************************************)
\* the symbols that the expressions of an action name
ActNames(act) == UNION {ExprNames(e) : e \in ActExprs(act)}

\* some symbol the action names has no value
NamesUndefined(act) == \E nm \in ActNames(act) : symtab[nm].value = None

\* the action is one whose operands pass 2 evaluates: an opcode, .byte, .word
OperandsEvaluated(act) ==
  act.kind = "op" \/ (act.kind = "pseudo" /\ act.name \in {".byte", ".word"})

\* C22 as claimed: once pass 1 has returned success, every symbol named by
\* an expression of a retained line has a value.
C22_DefinedAfterPass1 ==
  ctl = "pass1_ok" =>
    \A i \in 1..Len(parsed_lines) : ~NamesUndefined(parsed_lines[i].action)

\* C22: pass 1 may succeed with a retained opcode, .byte or .word line that
\* names a symbol without a value; pass 2 then fails on that line with an
\* error, so only in an assembly that succeeds does every symbol named by
\* such a line have a value.
C22_UndefinedIsPass2Error ==
  /\ \A i \in 1..Len(emitted) :
       (OperandsEvaluated(lines[i].action) /\ NamesUndefined(lines[i].action)) =>
          ~emitted[i].ok
  /\ result = "ok" =>
       \A i \in 1..Len(lines) :
         OperandsEvaluated(lines[i].action) => ~NamesUndefined(lines[i].action)
  /\ ctl # "panicked"

\* C22 witness: pass 1 succeeded on a program whose first line names a symbol
\* that is never defined, pass 2 failed on that line and assemble returned
\* the error
C22_Witness ==
  /\ result = "err2"
  /\ Len(lines) >= 2
  /\ OperandsEvaluated(lines[1].action)
  /\ NamesUndefined(lines[1].action)
  /\ ~emitted[1].ok
  /\ emitted[2].ok

(***************************************************************************)
(* Properties: the errors of the conditional structure.                    *)
(***************************************************************************)
\* pass 1 reads a line
Pass1Reads == ctl = "pass1" /\ SrcNext(src_stk).some

\* the loop of pass 1 ends
Pass1Ends == ctl = "pass1" /\ ctl' # "pass1"

\* no .if of the program fails: each has one argument, a number
NoIfFails(p) ==
  \A i \in 1..Len(p) : IsIf(p[i]) => Len(p[i].act.args) = 1 /\ p[i].act.args[1].k = "Num"

\* every .if of the program has its .endif after it
AllClosed(p) == Enclosing(p, Len(p)) = << >>

\* C23: an .else or .endif executed on an empty if-stack is an error and
\* leaves the if-stack empty; a non-empty if-stack at the end of the input
\* makes pass 1 fail; and when every .if has its .endif and no .if fails, the
\* if-stack is empty at the end of pass 1.
C23_ConditionalStructureErrors ==
  [][ /\ (Pass1Reads /\ (IsElse(Coming) \/ IsEndif(Coming)) /\ if_stack = << >>) =>
           /\ last1' = "err"
           /\ errcount' = errcount + 1
           /\ if_stack' = << >>
      /\ Pass1Ends =>
           /\ if_stack # << >> => ctl' = "failed" /\ result' = "err1" /\ errcount' > 0
           /\ (AllClosed(program) /\ NoIfFails(program)) => if_stack = << >> ]_vars

\* C23 witness: pass 1 has failed on ".else", ".if 1": the .else was an error
\* on the empty if-stack, and the .if was still open at the end
C23_Witness ==
  /\ program = << Else, IfOne >>
  /\ result = "err1"
  /\ errcount = 2
  /\ if_stack = << TRUE >>

(***************************************************************************)
(* Programs of one expression.                                             *)
(***************************************************************************)
\* how far from 0, $80 and $FF the bytes of the values of SpecExpr lie, and
\* how far from 0, $100, $8000 and $FFFF the operands of its operations
Near == 1

EdgeBytes == {b \in 0..(U8 - 1) : b <= Near \/ b >= U8 - 1 - Near \/ (b >= 128 - Near /\ b <= 128 + Near)}

\* the values of x: every pair of edge bytes
Words == {h * U8 + l : h, l \in EdgeBytes}

\* the operands of the operations
ExprOperands ==
  (0..Near) \cup ((U8 - Near)..(U8 + Near)) \cup ((32768 - Near)..(32768 + Near))
    \cup ((U16 - 1 - Near)..(U16 - 1))

\* "        .word -x + x, >x, <x"
NegHiLo(x) ==
  Text("", PseudoOp(".word", << Bin("Add", Un("Neg", Num(x)), Num(x)),
                                Un("Hi", Num(x)), Un("Lo", Num(x)) >>))

\* "        .word l + r", and so on with -, *, / and %
Operation(k, l, r) == Text("", PseudoOp(".word", << Bin(k, Num(l), Num(r)) >>))

ExprPrograms ==
  {<< NegHiLo(x) >> : x \in Words}
    \cup {<< Operation(k, l, r) >> : k \in BinaryKinds, l, r \in ExprOperands}

InitExpr == InitWith(ExprPrograms)

SpecExpr == InitExpr /\ [][Next]_vars

(***************************************************************************)
(* Properties: the arithmetic of expressions.                              *)
(***************************************************************************)
\* the u16 whose little-endian bytes are lo, hi
Word(lo, hi) == hi * U8 + lo

\* C24: for every 16-bit x, Neg(x) + x evaluates to 0 and
\* (Hi(x) << 8) | Lo(x) is x: Hi(x) and Lo(x) are below 256, so the shifted
\* Hi(x) and Lo(x) share no bit and the `|` is their sum.
C24_NegAndHiLo ==
  \A x \in Words :
    program = << NegHiLo(x) >> =>
      /\ ctl \notin {"failed", "panicked"}
      /\ ctl = "done" =>
           /\ Len(bytes) = 6
           /\ Word(bytes[1], bytes[2]) = 0
           /\ Word(bytes[3], bytes[4]) = x \div U8
           /\ Word(bytes[5], bytes[6]) = x % U8
           /\ Word(bytes[3], bytes[4]) < U8
           /\ Word(bytes[3], bytes[4]) * U8 + Word(bytes[5], bytes[6]) = x

\* C24 witness: ".word -x + x, >x, <x" has been assembled for x = $80FF
C24_Witness ==
  /\ program = << NegHiLo(33023) >>
  /\ ctl = "done"
  /\ bytes = << 0, 0, 128, 0, 255, 0 >>

\* l * r modulo 2^16, by the bytes of r
MulMod(l, r) == (((l * (r % U8)) % U16) + (((l * (r \div U8)) % U8) * U8)) % U16

\* the result of the operation modulo 2^16; the divisor is not 0
Reduced(k, l, r) ==
  CASE k = "Add" -> (l + r) % U16
    [] k = "Sub" -> (l - r + U16) % U16
    [] k = "Mul" -> MulMod(l, r)
    [] k = "Div" -> l \div r
    [] k = "Mod" -> l % r

\* C27: for all operands l and r, r = 0 included, an operation gives its
\* result modulo 2^16 or an error of its line; the assembler never aborts.
C27_ArithmeticNeverAborts ==
  \A k \in BinaryKinds, l, r \in ExprOperands :
    program = << Operation(k, l, r) >> =>
      /\ ctl # "panicked"
      /\ ctl = "done" =>
           /\ r # 0 \/ k \notin {"Div", "Mod"}
           /\ bytes = ToLeBytes(Reduced(k, l, r))

(***************************************************************************)
(* The label of a line, character by character.                            *)
(***************************************************************************)
\* is_alpha
IsAlpha(c) == c \in 65..90 \/ c \in 97..122 \/ c = 95

\* is_alphanum
IsAlphanum(c) == IsAlpha(c) \/ c \in 48..57

\* char::is_ascii_whitespace
IsAsciiWhitespace(c) == c \in {32, 9, 10, 12, 13}

\* skip_ws: the characters left
RECURSIVE SkipWs(_)
SkipWs(chars) ==
  IF chars # << >> /\ IsAsciiWhitespace(Head(chars)) THEN SkipWs(Tail(chars)) ELSE chars

\* the number of leading characters of a name
RECURSIVE NameLen(_)
NameLen(chars) ==
  IF chars # << >> /\ IsAlphanum(Head(chars)) THEN 1 + NameLen(Tail(chars)) ELSE 0

\* parse_name: the name, if the characters begin with one, and the characters
\* left
ParseName(chars) ==
  IF chars # << >> /\ IsAlpha(Head(chars))
    THEN [name |-> SomeStr(SubSeq(chars, 1, NameLen(chars))),
          rest |-> SubSeq(chars, NameLen(chars) + 1, Len(chars))]
    ELSE [name |-> NoneStr, rest |-> chars]

\* str::to_ascii_lowercase
ToAsciiLowercase(s) == [i \in DOMAIN s |-> IF s[i] \in 65..90 THEN s[i] + 32 ELSE s[i]]

\* the spelling of the mnemonics that can be written with the letters of
\* LabelChars
OpText == [inx |-> << 105, 110, 120 >>]

\* find_op(name).is_some()
FindOp(name) == \E mn \in DOMAIN OpText \cap DOMAIN OP_TABLE : OpText[mn] = name

\* self.macros.contains_key(name)
IsMacroName(name, mac) == \E n \in Names : NameText[n] = name /\ mac[n].some

\* parse_label, after skip_ws and parse_name: a `:` is consumed, and the name
\* of a macro or of an opcode is no label
ParseLabelNamed(n, mac) ==
  [label |-> IF IsMacroName(n.name.s, mac) \/ FindOp(ToAsciiLowercase(n.name.s))
               THEN NoneStr ELSE n.name,
   rest |-> IF n.rest # << >> /\ Head(n.rest) = 58 THEN Tail(n.rest) ELSE n.rest]

\* parse_label: the label, if any, and the characters left
ParseLabelFrom(n, mac) ==
  IF n.name.some THEN ParseLabelNamed(n, mac) ELSE [label |-> NoneStr, rest |-> n.rest]

ParseLabel(chars, mac) == ParseLabelFrom(ParseName(SkipWs(chars)), mac)

\* the beginning of parse_line: the label and the characters parse_action is
\* given, which are the whole line when there is no label
LabelOfLine(text, r) ==
  [some |-> TRUE, text |-> text, label |-> r.label,
   rest |-> IF r.label.some THEN r.rest ELSE text]

\* the longest line of SpecLabel
MaxChars == 4

\* ' ', ':', 'i', 'n', 'w', 'x'
LabelChars == {32, 58, 105, 110, 119, 120}

LabelTexts == UNION {[1..n -> LabelChars] : n \in 0..MaxChars}

\* the macro inw is defined
InwDefined == [NoMacros EXCEPT !["inw"] = [some |-> TRUE, lines |-> << >>]]

InitLabel == InitWith({<< >>})

\* `.mac inw` and `.endm` have been read
DefineInw ==
  /\ macros = NoMacros
  /\ macros' = InwDefined
  /\ UNCHANGED << src_stk, parsed_lines, pass, symtab, pc, cur_line, errcount,
                  output_flag, if_stack, lines, idx, output, ctl, result, bytes,
                  sizes, emitted, last1, program, debug_fmt, debug_str,
                  building_comment, listing, listing_index, got,
                  overflow_checks, symstr, label_parsed >>

\* parse_line, up to its call of parse_action, on one line
ParseLabelStep ==
  /\ ~label_parsed.some
  /\ \E text \in LabelTexts :
       label_parsed' = LabelOfLine(text, ParseLabel(text, macros))
  /\ UNCHANGED << src_stk, parsed_lines, pass, symtab, pc, cur_line, errcount,
                  output_flag, if_stack, lines, idx, output, ctl, result, bytes,
                  sizes, emitted, last1, program, macros, debug_fmt, debug_str,
                  building_comment, listing, listing_index, got,
                  overflow_checks, symstr >>

NextLabel ==
  \/ DefineInw
  \/ ParseLabelStep

SpecLabel == InitLabel /\ [][NextLabel]_vars

(***************************************************************************)
(* Properties: the column of a label.                                      *)
(***************************************************************************)
\* C25: a line has a label only when an identifier starts at its column 0;
\* an identifier after whitespace is never the label, and parse_action is
\* given the line from its start.
C25_LabelOnlyAtColumnZero ==
  label_parsed.some =>
    /\ label_parsed.label.some => IsAlpha(label_parsed.text[1])
    /\ (label_parsed.text # << >> /\ ~IsAlpha(label_parsed.text[1])) =>
         (~label_parsed.label.some /\ label_parsed.rest = label_parsed.text)

(***************************************************************************)
(* Properties: the lines of a suppressed branch.                           *)
(***************************************************************************)
\* pass 1 reads a line while the top of the if-stack is false, and the line
\* has no action or one that is neither .else nor .endif
ReadsSuppressed ==
  /\ Pass1Reads
  /\ if_stack # << >>
  /\ ~Top(if_stack)
  /\ ~IsIfAffiliated(Coming.act)

\* C26: a line read while the top of the if-stack is false, whose action is
\* not .else or .endif, has no effect: the PC, the if-stack, the macros, the
\* debug output, the symbol table with its values and references and the
\* error count are unchanged, and the line is not retained.
C26_SuppressedLineHasNoEffect ==
  [][ ReadsSuppressed =>
        /\ pc' = pc
        /\ if_stack' = if_stack
        /\ macros' = macros
        /\ debug_str' = debug_str
        /\ symtab' = symtab
        /\ errcount' = errcount
        /\ parsed_lines' = parsed_lines ]_vars

(***************************************************************************)
(* Properties: the symbol table in pass 2.                                 *)
(***************************************************************************)
\* the entries of the table, their values and their definition sites
Definitions(st) ==
  [n \in Names |-> [present |-> st[n].present, value |-> st[n].value,
                    defined_at |-> st[n].defined_at]]

\* C28: from the end of pass 1 on, no step changes the value or the
\* definition site of a symbol or adds or removes an entry: the values that
\* assemble returns are those held at the end of pass 1, whatever the PC of
\* the lines in pass 2.
C28_Pass2KeepsSymbols ==
  [][ (ctl = "pass1_ok" \/ ctl = "pass2") =>
        (Definitions(symtab))' = Definitions(symtab) ]_vars

\* C28 witness: "lda foo", "bar jmp bar", "foo = $10" has been assembled; the
\* line of bar had PC 2 in pass 2 and bar still has the value 3 of pass 1
C28_Witness ==
  /\ program = << LdaFoo, BarJmpBar, FooEquSmall >>
  /\ result = "ok"
  /\ emitted[2].pc = 2
  /\ symtab["bar"].value = 3
  /\ symtab["bar"].defined_at = LabelSlice(2)

(***************************************************************************)
(* Properties: the termination of pass 1.                                  *)
(***************************************************************************)
\* the programs of SpecMac, with every step that can be taken eventually
\* taken: assemble runs on until it returns, unless a call never returns
\* A line can be read: pass1's loop has a next line (asm.rs 176-185), or
\* pass2's loop has a parsed line left (asm.rs 216-236).  Reading a line
\* always changes the state, so this is when the line actions are enabled.
LineEnabled ==
  \/ ctl = "pass1" /\ SrcNext(src_stk).some
  \/ ctl = "pass2" /\ idx < Len(lines)

\* assemble runs on one thread to its end: a step that can be taken is
\* taken.  Weak fairness of each action; for the two line actions it is
\* written out with their guard.
Fairness ==
  /\ WF_vars(Pass1Begin)
  /\ WF_vars(Pass1End)
  /\ WF_vars(Pass2Begin)
  /\ WF_vars(Pass2End)
  /\ ([]<>(~LineEnabled) \/ []<><<Pass1Line \/ Pass2Line>>_vars)

SpecMacFair == InitMac /\ [][Next]_vars /\ Fairness

\* Under the fairness above the assembler never just stops in the middle:
\* it returns, aborts, or is inside a call that does not return.
RunsToAnEnd == <>(ctl \in {"done", "failed", "hung", "panicked"})

\* Assembler::pass1 has returned
Pass1Returned == ctl \in {"pass1_ok", "pass2", "done", "failed"}

\* C30: on every program without an include, whatever macros it defines and
\* uses, pass 1 terminates: the stack of sources is exhausted and pass 1
\* returns.
C30_Pass1Terminates == <>(Pass1Returned /\ src_stk = << >>)

====
